---- MODULE Spec2Model ----
(***************************************************************************)
(* Eclipse New Tab (src/script.js): the tab / shortcut membership and       *)
(* drag-reorder state machine.                                              *)
(*                                                                          *)
(* Ids are naturals.  0 stands for every falsy id of the JavaScript code    *)
(* (null, undefined, the empty string): a stored shortcut without an id, a  *)
(* null state.activeTabId, findIndex's -1.  Date.now() based ids are drawn  *)
(* from the counter nextId, so every generated id is fresh.                 *)
(***************************************************************************)
EXTENDS Integers, Sequences, FiniteSets, TLC

VARIABLES
  tabs,           \* state.tabs: sequence of [id, name, shortcuts]
  activeTabId,    \* state.activeTabId (0 = null)
  draggedItem,    \* state.draggedItem: [kind, id], kind "none" = null
  isEditing,      \* state.isEditing
  currentElement, \* state.currentElement: shortcut id of the element (0 = null)
  currentTabId,   \* state.currentTabId (0 = null)
  container,      \* #shortcutsContainer: sequence of [id, name, href, shown]
  tabsContainer,  \* #tabsContainer: sequence of tab ids (dataset.tabId)
  strayTabButtons,\* tab ids of the tab buttons that sit in #shortcutsContainer
  deletedMembers, \* history: ids that deleteTab left in no tab, until a save of the
                  \* shortcut modal puts them in a tab or the page has loaded them
  store,          \* chrome.storage.local: [tabs, activeTab, shortcuts]
  modal,          \* shortcut modal: [open, hasSelect, options, value]
  tabModal,       \* tab modal: [open, deleteShown]
  nextId,         \* next value of Date.now()
  phase,          \* position of the page: "start", "tabsLoaded", "ready", ...
  dnd,            \* the browser's drag session: "idle" or "dragging"
  tasks,          \* handlers suspended at an await
  search,         \* the search box: #search, the timer of debounce, the
                  \* fetches in flight and #suggestions
  other,          \* a second instance of the page on the same store:
                  \* [open, page], page being the state of that instance
  lastOp          \* the handler that ran last: [op, a, b, input, writes]; the
                  \* input of loadShortcuts is the tabs' lists it found

vars == <<tabs, activeTabId, draggedItem, isEditing, currentElement,
          currentTabId, container, tabsContainer, strayTabButtons, deletedMembers,
          store,
          modal, tabModal, nextId, phase, dnd, tasks, search, other, lastOp>>

----------------------------------------------------------------------------
(* Bounds of the model *)

\* Page load on any store content (SpecLoad)
MaxStoredTabs == 2
MaxStoredShortcuts == 2
\* Every gesture (Spec): tabs, shortcuts and values of Date.now()
MaxTabs == 2
MaxShortcuts == 2
MaxFreshIds == 3
\* Tab gestures alone (SpecTabs, SpecCreateDrag, SpecAsync)
MaxBarTabs == 4
MaxBarIds == 4
\* Tab drags with shortcuts on the page (SpecDrag)
MaxDragShortcuts == 1
\* Saves of shortcuts with many urls (SpecUrl)
MaxUrlShortcuts == 2
\* Stored shortcuts of the load-and-save-back checks.
MaxRoundTripShortcuts == 2
\* Stored shortcuts of the reorder checks.
MaxOrderShortcuts == 3

----------------------------------------------------------------------------
(* Values *)

\* Text is a sequence of fragments: a blank " " or a string without blanks.
Ungrouped == <<"Ungrouped">>

\* The first value of Date.now(); the stored ids of InitLoad are smaller.
FirstFreshId == 201

NoItem == [kind |-> "none", id |-> 0]

ClosedModal == [open |-> FALSE, hasSelect |-> FALSE, options |-> <<>>, value |-> 0]
ClosedTabModal == [open |-> FALSE, deleteShown |-> FALSE]

\* The search box of a page that starts: #search is empty, debounce has set
\* no timer (timeoutId is undefined), no fetch is in flight, #suggestions is
\* empty and hidden.  History: sent counts the fetches, arrived is the last
\* response and newest the latest fetch that was answered; events counts
\* the input events of the burst, runs and fetched the runs of the handler and
\* its fetches since the last input event, idle the time since then.
NoSearch ==
  [value |-> <<>>, timeoutId |-> 0, timers |-> {}, fetches |-> {},
   list |-> <<>>, hidden |-> TRUE,
   sent |-> 0, arrived |-> [n |-> 0, suggestions |-> <<>>], newest |-> 0,
   events |-> 0, runs |-> 0, fetched |-> 0, idle |-> 0]

SiteName == <<"n">>
SiteHref == <<"h", "t", "t", "p", "s", ":", "/", "/", "x", "/">>

----------------------------------------------------------------------------
(* Array helpers *)

\* Array.prototype.findIndex, 1-based; 0 stands for -1.
FindIndex(s, Test(_)) ==
  IF \E i \in 1..Len(s) : Test(s[i])
  THEN CHOOSE i \in 1..Len(s) : Test(s[i]) /\ \A j \in 1..(i - 1) : ~Test(s[j])
  ELSE 0

IndexOf(s, x) == LET Is(y) == y = x IN FindIndex(s, Is)

Filter(s, Test(_)) == SelectSeq(s, Test)

Range(s) == {s[i] : i \in 1..Len(s)}

\* The shortcut ids in the membership lists of the tabs with id tabId.
MembersOf(ts, tabId) ==
  UNION {Range(ts[i].shortcuts) : i \in {j \in 1..Len(ts) : ts[j].id = tabId}}

\* History: the user's save of the shortcut modal put the ids that are in a
\* tab of w where the user wants them.
StillInNoTab(w) ==
  [w EXCEPT !.deletedMembers =
     @ \ UNION {Range(w.tabs[i].shortcuts) : i \in 1..Len(w.tabs)}]

\* Array.prototype.splice(i, 1) with a 1-based index.
RemoveAt(s, i) == SubSeq(s, 1, i - 1) \o SubSeq(s, i + 1, Len(s))

\* Array.prototype.splice(i, 0, x) with a 0-based index i, as in the code.
InsertAt(s, i, x) == SubSeq(s, 1, i) \o <<x>> \o SubSeq(s, i + 1, Len(s))

\* A faulty variant of IsUngrouped: the reserved name compared in lower case.
IsUngroupedLowerCase(tab) == tab.name = <<"ungrouped">>

IsUngrouped(tab) == tab.name = Ungrouped

\* state.tabs.find(tab => tab.name === "Ungrouped"), as an index (0 = none).
UngroupedIndex(ts) == FindIndex(ts, IsUngrouped)

\* state.tabs.findIndex(t => t.id === tabId)
TabIndex(ts, tabId) == LET Is(t) == t.id = tabId IN FindIndex(ts, Is)

----------------------------------------------------------------------------
(* Text: trimming, the scheme test and the anchor's href *)

Lower(c) ==
  CASE c = "H" -> "h" [] c = "T" -> "t" [] c = "P" -> "p" [] c = "S" -> "s"
    [] c = "X" -> "x" [] OTHER -> c

RECURSIVE TrimStart(_)
TrimStart(t) == IF t # <<>> /\ Head(t) = " " THEN TrimStart(Tail(t)) ELSE t

RECURSIVE TrimEnd(_)
TrimEnd(t) ==
  IF t # <<>> /\ t[Len(t)] = " " THEN TrimEnd(SubSeq(t, 1, Len(t) - 1)) ELSE t

\* String.prototype.trim
Trim(t) == TrimEnd(TrimStart(t))

StartsWithNoCase(t, p) ==
  /\ Len(t) >= Len(p)
  /\ \A i \in 1..Len(p) : Lower(t[i]) = p[i]

HttpPrefix == <<"h", "t", "t", "p", ":", "/", "/">>
HttpsPrefix == <<"h", "t", "t", "p", "s", ":", "/", "/">>

\* /^https?:\/\//i.test(url)
HasScheme(url) == StartsWithNoCase(url, HttpPrefix) \/ StartsWithNoCase(url, HttpsPrefix)

\* The page's own address, against which a relative href is resolved.
BaseUrl == <<"e", "x", "t", ":", "/", "/", "i", "d", "/">>

\* anchor.href = url; ... el.href: the browser serialises the parsed URL:
\* scheme and host in lower case, an empty path as "/", and a url without a
\* scheme resolved against the page's address.
Href(url) ==
  IF HasScheme(url)
  THEN LET p == IF StartsWithNoCase(url, HttpsPrefix) THEN HttpsPrefix ELSE HttpPrefix
           rest == SubSeq(url, Len(p) + 1, Len(url))
           slash == IndexOf(rest, "/")
           host == IF slash = 0 THEN rest ELSE SubSeq(rest, 1, slash - 1)
           path == IF slash = 0 THEN <<"/">> ELSE SubSeq(rest, slash, Len(rest))
       IN p \o [i \in 1..Len(host) |-> Lower(host[i])] \o path
  ELSE BaseUrl \o url

----------------------------------------------------------------------------
(* The page as one record, so that a handler is a composition of the
   functions it calls.  writes collects the storage keys the handler set. *)

World ==
  [tabs |-> tabs, activeTabId |-> activeTabId, draggedItem |-> draggedItem,
   isEditing |-> isEditing, currentElement |-> currentElement,
   currentTabId |-> currentTabId, container |-> container,
   tabsContainer |-> tabsContainer, strayTabButtons |-> strayTabButtons,
   deletedMembers |-> deletedMembers,
   store |-> store, modal |-> modal,
   tabModal |-> tabModal, nextId |-> nextId, writes |-> <<>>]

\* setStorageValue(key, value): chrome.storage.local.set({[key]: value})
\* The state of a page that starts, before it read the store.
StartedPage ==
  [tabs |-> <<>>, activeTabId |-> 0, draggedItem |-> NoItem,
   isEditing |-> FALSE, currentElement |-> 0, currentTabId |-> 0,
   container |-> <<>>, tabsContainer |-> <<>>, strayTabButtons |-> {},
   deletedMembers |-> {},
   store |-> [tabs |-> <<>>, activeTab |-> 0, shortcuts |-> <<>>],
   modal |-> ClosedModal, tabModal |-> ClosedTabModal, nextId |-> 0,
   writes |-> <<>>]

\* No second instance of the page is open.
NoInstance == [open |-> FALSE, page |-> StartedPage]

setStorageValue(w, key, value) ==
  [w EXCEPT !.store[key] = value, !.writes = Append(@, key)]

\* saveTabs: the tabs key, then the activeTab key.
saveTabs(w) ==
  setStorageValue(setStorageValue(w, "tabs", w.tabs), "activeTab", w.activeTabId)

\* A saveToLocalStorage that stores {name, url} records, without the id.
saveToLocalStorageWithoutId(w) ==
  setStorageValue(w, "shortcuts",
    [i \in 1..Len(w.container) |->
       [id |-> 0, name |-> w.container[i].name, url |-> w.container[i].href]])

\* A faulty variant of saveToLocalStorage: only the shortcuts on display are
\* stored.
saveToLocalStorageShownOnly(w) ==
  LET shown == SelectSeq(w.container, LAMBDA el : el.shown)
  IN setStorageValue(w, "shortcuts",
       [i \in 1..Len(shown) |->
          [id |-> shown[i].id, name |-> shown[i].name, url |-> shown[i].href]])

\* saveToLocalStorage: the shortcut list is read back from the DOM order.
saveToLocalStorage(w) ==
  setStorageValue(w, "shortcuts",
    [i \in 1..Len(w.container) |->
       [id |-> w.container[i].id, name |-> w.container[i].name,
        url |-> w.container[i].href]])

\* renderTabs: the first tab named "Ungrouped", then every tab with another name.
renderTabs(w) ==
  LET u == UngroupedIndex(w.tabs)
      others == Filter(w.tabs, LAMBDA t : ~IsUngrouped(t))
  IN [w EXCEPT !.tabsContainer =
        (IF u # 0 THEN <<w.tabs[u].id>> ELSE <<>>)
        \o [i \in 1..Len(others) |-> others[i].id]]

\* The ids updateVisibleShortcuts puts on display.
ShownBy(w, el) ==
  IF w.activeTabId # 0
  THEN LET a == TabIndex(w.tabs, w.activeTabId)
       IN a # 0 /\ el.id \in Range(w.tabs[a].shortcuts)
  ELSE LET u == UngroupedIndex(w.tabs)
       IN IF u # 0 THEN el.id \in Range(w.tabs[u].shortcuts) ELSE TRUE

updateVisibleShortcuts(w) ==
  [w EXCEPT !.container =
     [i \in 1..Len(w.container) |->
        [w.container[i] EXCEPT !.shown = ShownBy(w, w.container[i])]]]

\* A loadTabs that does not save the tab it creates.
loadTabsUnsaved(w) ==
  LET w1 == [w EXCEPT !.tabs = w.store.tabs, !.activeTabId = w.store.activeTab]
      w2 == IF UngroupedIndex(w1.tabs) = 0
            THEN [w1 EXCEPT
                    !.tabs = <<[id |-> w1.nextId, name |-> Ungrouped,
                                shortcuts |-> <<>>]>> \o w1.tabs,
                    !.activeTabId = IF w1.activeTabId = 0 THEN w1.nextId ELSE @,
                    !.nextId = @ + 1]
            ELSE w1
  IN renderTabs(w2)

\* loadTabs
loadTabs(w) ==
  LET w1 == [w EXCEPT !.tabs = w.store.tabs, !.activeTabId = w.store.activeTab]
      w2 == IF UngroupedIndex(w1.tabs) = 0
            THEN saveTabs(
                   [w1 EXCEPT
                      !.tabs = <<[id |-> w1.nextId, name |-> Ungrouped,
                                  shortcuts |-> <<>>]>> \o w1.tabs,
                      !.activeTabId = IF w1.activeTabId = 0 THEN w1.nextId ELSE @,
                      !.nextId = @ + 1])
            ELSE w1
  IN renderTabs(w2)

\* The Map loadShortcuts builds: every id of every tab's list, in tab order,
\* set(shortcutId, tab.id) overwriting an earlier entry.
RECURSIVE AssignListFirstWins(_, _, _)
AssignListFirstWins(m, ids, tabId) ==
  IF ids = <<>> THEN m
  ELSE AssignListFirstWins(m @@ (Head(ids) :> tabId), Tail(ids), tabId)

RECURSIVE AssignList(_, _, _)
AssignList(m, ids, tabId) ==
  IF ids = <<>> THEN m
  ELSE AssignList((Head(ids) :> tabId) @@ m, Tail(ids), tabId)

RECURSIVE existingTabAssignments(_, _)
existingTabAssignments(m, ts) ==
  IF ts = <<>> THEN m
  ELSE existingTabAssignments(AssignList(m, Head(ts).shortcuts, Head(ts).id), Tail(ts))

\* A faulty variant of PlaceShortcut: a shortcut that no tab lists is put in
\* no tab instead of "Ungrouped".
PlaceShortcutNoDefault(w, item, assign, u) ==
  LET fresh == item.id = 0
      shortcutId == IF fresh THEN w.nextId ELSE item.id
      t == IF shortcutId \in DOMAIN assign
           THEN TabIndex(w.tabs, assign[shortcutId])
           ELSE 0
  IN [w EXCEPT
        !.nextId = IF fresh THEN @ + 1 ELSE @,
        !.container = Append(@, [id |-> shortcutId, name |-> item.name,
                                 href |-> Href(item.url), shown |-> TRUE]),
        !.tabs = IF t # 0
                 THEN [@ EXCEPT ![t].shortcuts = Append(@, shortcutId)]
                 ELSE @]

\* A faulty variant of PlaceShortcut: the id is put in front of the list of
\* its tab.
PlaceShortcutInFront(w, item, assign, u) ==
  LET fresh == item.id = 0
      shortcutId == IF fresh THEN w.nextId ELSE item.id
      t == IF shortcutId \in DOMAIN assign
           THEN (IF TabIndex(w.tabs, assign[shortcutId]) # 0
                 THEN TabIndex(w.tabs, assign[shortcutId]) ELSE u)
           ELSE u
  IN [w EXCEPT
        !.nextId = IF fresh THEN @ + 1 ELSE @,
        !.container = Append(@, [id |-> shortcutId, name |-> item.name,
                                 href |-> Href(item.url), shown |-> TRUE]),
        !.tabs = IF t # 0
                 THEN [@ EXCEPT ![t].shortcuts = <<shortcutId>> \o @]
                 ELSE @]

\* One step of items.map in loadShortcuts: the element is inserted and the
\* id is pushed to its tab.
PlaceShortcut(w, item, assign, u) ==
  LET fresh == item.id = 0
      shortcutId == IF fresh THEN w.nextId ELSE item.id
      t == IF shortcutId \in DOMAIN assign
           THEN (IF TabIndex(w.tabs, assign[shortcutId]) # 0
                 THEN TabIndex(w.tabs, assign[shortcutId]) ELSE u)
           ELSE u
  IN [w EXCEPT
        !.nextId = IF fresh THEN @ + 1 ELSE @,
        !.container = Append(@, [id |-> shortcutId, name |-> item.name,
                                 href |-> Href(item.url), shown |-> TRUE]),
        !.tabs = IF t # 0
                 THEN [@ EXCEPT ![t].shortcuts = Append(@, shortcutId)]
                 ELSE @]

RECURSIVE PlaceAll(_, _, _, _)
PlaceAll(w, items, assign, u) ==
  IF items = <<>> THEN w
  ELSE PlaceAll(PlaceShortcut(w, Head(items), assign, u), Tail(items), assign, u)

\* A faulty variant of loadShortcuts: the lists of the tabs are not emptied
\* before the stored shortcuts are placed.
loadShortcutsWithoutClear(w) ==
  LET items == w.store.shortcuts
      u == UngroupedIndex(w.tabs)
      assign == existingTabAssignments(<<>>, w.tabs)
  IN updateVisibleShortcuts(saveTabs(PlaceAll(w, items, assign, u)))

\* loadShortcuts (the Membership Reconciler)
loadShortcuts(w) ==
  LET items == w.store.shortcuts
      u == UngroupedIndex(w.tabs)
      assign == existingTabAssignments(<<>>, w.tabs)
      cleared == [w EXCEPT !.tabs = [i \in 1..Len(w.tabs) |->
                                       [w.tabs[i] EXCEPT !.shortcuts = <<>>]]]
  IN updateVisibleShortcuts(saveTabs(PlaceAll(cleared, items, assign, u)))

----------------------------------------------------------------------------
(* Actions: page load *)

Op(name, a, b, w) ==
  [op |-> name, a |-> a, b |-> b, input |-> <<>>, writes |-> w.writes]

\* History: the ids of deleted that no load has placed yet; the step after
\* loadShortcuts forgets the ids that load placed.
Pending(deleted) ==
  IF lastOp.op = "loadShortcuts" THEN deleted \ deletedMembers ELSE deleted

\* The page after the handler: every field of the record w.
Commit(w) ==
  /\ tabs' = w.tabs
  /\ activeTabId' = w.activeTabId
  /\ draggedItem' = w.draggedItem
  /\ isEditing' = w.isEditing
  /\ currentElement' = w.currentElement
  /\ currentTabId' = w.currentTabId
  /\ container' = w.container
  /\ tabsContainer' = w.tabsContainer
  /\ strayTabButtons' = w.strayTabButtons
  /\ deletedMembers' = Pending(w.deletedMembers)
  /\ store' = w.store
  /\ modal' = w.modal
  /\ tabModal' = w.tabModal
  /\ nextId' = w.nextId
  /\ UNCHANGED <<search, other>>

\* The const state = {...} and the empty document of a page that starts.
FreshPage ==
  /\ tabs = <<>>
  /\ activeTabId = 0
  /\ draggedItem = NoItem
  /\ isEditing = FALSE
  /\ currentElement = 0
  /\ currentTabId = 0
  /\ container = <<>>
  /\ tabsContainer = <<>>
  /\ strayTabButtons = {}
  /\ deletedMembers = {}
  /\ modal = ClosedModal
  /\ tabModal = ClosedTabModal
  /\ dnd = "idle"
  /\ tasks = <<>>
  /\ search = NoSearch
  /\ other = NoInstance
  /\ lastOp = [op |-> "none", a |-> 0, b |-> 0, input |-> <<>>, writes |-> <<>>]

\* initialize: await loadTabs()
LoadTabs(maxIds) ==
  /\ phase \in {"start", "restart"}
  /\ UngroupedIndex(store.tabs) = 0 => nextId < FirstFreshId + maxIds
  /\ LET w == loadTabs(World)
     IN /\ Commit(w)
        /\ lastOp' = Op("loadTabs", 0, 0, w)
  /\ phase' = IF phase = "start" THEN "tabsLoaded" ELSE "tabsReloaded"
  /\ UNCHANGED <<dnd, tasks>>

\* initialize: await loadShortcuts(), and the rest of initialize, which
\* changes nothing of this state (updateVisibleShortcuts ran already).
LoadShortcuts(maxIds) ==
  /\ phase \in {"tabsLoaded", "tabsReloaded"}
  /\ nextId + Cardinality({i \in 1..Len(store.shortcuts) :
                             store.shortcuts[i].id = 0})
       <= FirstFreshId + maxIds
  /\ LET w == updateVisibleShortcuts(loadShortcuts(World))
     IN /\ Commit(w)
        /\ lastOp' = [Op("loadShortcuts", 0, 0, w) EXCEPT
                         !.input = [i \in 1..Len(tabs) |-> tabs[i].shortcuts]]
  /\ phase' = "ready"
  /\ UNCHANGED <<dnd, tasks>>

\* The page is closed and opened again: the store stays, the page starts anew.
Reload ==
  /\ phase = "ready"
  /\ ~modal.open /\ ~tabModal.open /\ dnd = "idle" /\ tasks = <<>>
  /\ tabs' = <<>>
  /\ activeTabId' = 0
  /\ draggedItem' = NoItem
  /\ isEditing' = FALSE
  /\ currentElement' = 0
  /\ currentTabId' = 0
  /\ container' = <<>>
  /\ tabsContainer' = <<>>
  /\ strayTabButtons' = {}
  /\ modal' = ClosedModal
  /\ tabModal' = ClosedTabModal
  /\ lastOp' = [op |-> "reload", a |-> 0, b |-> 0, input |-> <<>>, writes |-> <<>>]
  /\ phase' = "restart"
  /\ deletedMembers' = Pending(deletedMembers)
  /\ search' = NoSearch
  /\ UNCHANGED <<store, nextId, dnd, tasks, other>>

----------------------------------------------------------------------------
(* Page load on any store content: the stored tab list may lack the
   "Ungrouped" tab, hold it anywhere or several times, and its membership
   lists may hold an id twice, in two tabs, or of no stored shortcut; a
   stored shortcut of the earlier versions of the page (scripts/main.js)
   has no id. *)

StoredShortcut(id) == [id |-> id, name |-> SiteName, url |-> SiteHref]

StoredMemberships == {<<>>, <<1>>, <<2>>, <<1, 2>>, <<2, 1>>, <<1, 1>>, <<9>>, <<9, 1>>}
StoredTabNames == {Ungrouped, <<"A">>}

SeqsUpTo(S, n) == UNION {[1..k -> S] : k \in 0..n}

\* The i-th stored tab has id i + 100: tab ids are unique.
StoredTabLists ==
  {[i \in 1..Len(l) |-> [id |-> i + 100, name |-> l[i][1], shortcuts |-> l[i][2]]] :
     l \in SeqsUpTo(StoredTabNames \X StoredMemberships, MaxStoredTabs)}

\* Stored shortcut ids are unique; 0 is a record without an id.
StoredShortcutLists ==
  {[i \in 1..Len(l) |-> StoredShortcut(l[i])] :
     l \in {m \in SeqsUpTo(0..MaxStoredShortcuts, MaxStoredShortcuts) :
              \A i, j \in 1..Len(m) : (i # j /\ m[i] # 0) => m[i] # m[j]}}

InitLoad ==
  /\ FreshPage
  /\ phase = "start"
  /\ nextId = FirstFreshId
  /\ store \in [tabs : StoredTabLists,
                activeTab : {0, 101, 109},
                shortcuts : StoredShortcutLists]

\* Three loads at most draw fresh ids here.
NextLoad ==
  \/ LoadTabs(3 * (MaxStoredShortcuts + 1))
  \/ LoadShortcuts(3 * (MaxStoredShortcuts + 1))
  \/ Reload

SpecLoad == InitLoad /\ [][NextLoad]_vars

----------------------------------------------------------------------------
(* Tab handlers *)

\* openAddTabModal(edit, tabId)
openAddTabModal(w, edit, tabId) ==
  LET t == TabIndex(w.tabs, tabId)
  IN [w EXCEPT
        !.currentTabId = tabId,
        !.tabModal =
          [open |-> TRUE,
           deleteShown |-> edit /\ tabId # 0 /\ ~(t # 0 /\ IsUngrouped(w.tabs[t]))]]

\* tabModal.classList.add('hidden').  The next openAddTabModal sets the
\* delete button again, so the hidden modal keeps nothing here.
closeTabModal(w) == [w EXCEPT !.tabModal = ClosedTabModal]

\* A faulty variant of saveTabChange: a new tab is put in front of the others.
saveTabChangeInFront(w, edit, tabId, tabName) ==
  IF edit /\ tabId # 0
  THEN LET t == TabIndex(w.tabs, tabId)
       IN IF t # 0 THEN [w EXCEPT !.tabs[t].name = tabName] ELSE w
  ELSE [w EXCEPT
          !.tabs = <<[id |-> w.nextId, name |-> tabName, shortcuts |-> <<>>]>> \o @,
          !.activeTabId = IF Len(w.tabs) = 0 THEN w.nextId ELSE @,
          !.nextId = @ + 1]

\* saveTab up to its await: the name check and the change of state.tabs.
saveTabChange(w, edit, tabId, tabName) ==
  IF edit /\ tabId # 0
  THEN LET t == TabIndex(w.tabs, tabId)
       IN IF t # 0 THEN [w EXCEPT !.tabs[t].name = tabName] ELSE w
  ELSE [w EXCEPT
          !.tabs = Append(@, [id |-> w.nextId, name |-> tabName, shortcuts |-> <<>>]),
          !.activeTabId = IF Len(w.tabs) = 0 THEN w.nextId ELSE @,
          !.nextId = @ + 1]

\* saveTab after await saveTabs(): the tab bar, the visible shortcuts, the modal.
saveTabFinish(w) == closeTabModal(updateVisibleShortcuts(renderTabs(w)))

\* A faulty variant of saveTab: the name is not required.
saveTabAnyName(w, edit, tabId, input) ==
  saveTabFinish(saveTabs(saveTabChange(w, edit, tabId, Trim(input))))

\* saveTab(edit, tabId) with tabNameInput.value = input
saveTab(w, edit, tabId, input) ==
  IF Trim(input) = <<>> THEN w
  ELSE saveTabFinish(saveTabs(saveTabChange(w, edit, tabId, Trim(input))))

\* A deleteTab that takes the tab's shortcuts out of the stored list too.
deleteTabAndMembers(w, tabId, confirmed) ==
  IF ~confirmed THEN w
  ELSE LET rest == Filter(w.tabs, LAMBDA t : t.id # tabId)
           gone == MembersOf(w.tabs, tabId)
           w1 == [w EXCEPT
                    !.tabs = rest,
                    !.deletedMembers = @ \cup gone,
                    !.store.shortcuts = Filter(@, LAMBDA s : s.id \notin gone),
                    !.activeTabId =
                      IF w.activeTabId = tabId /\ Len(rest) > 0 THEN rest[1].id
                      ELSE IF Len(rest) = 0 THEN 0
                      ELSE @]
       IN closeTabModal(updateVisibleShortcuts(renderTabs(saveTabs(w1))))

\* deleteTab(tabId); confirmed is the answer to confirm().
deleteTab(w, tabId, confirmed) ==
  IF ~confirmed THEN w
  ELSE LET rest == Filter(w.tabs, LAMBDA t : t.id # tabId)
           w1 == [w EXCEPT
                    !.tabs = rest,
                    !.deletedMembers = @ \cup MembersOf(w.tabs, tabId),
                    !.activeTabId =
                      IF w.activeTabId = tabId /\ Len(rest) > 0 THEN rest[1].id
                      ELSE IF Len(rest) = 0 THEN 0
                      ELSE @]
       IN closeTabModal(updateVisibleShortcuts(renderTabs(saveTabs(w1))))

\* setActiveTab(tabId)
setActiveTab(w, tabId) ==
  updateVisibleShortcuts(renderTabs(
    setStorageValue([w EXCEPT !.activeTabId = tabId], "activeTab", tabId)))

----------------------------------------------------------------------------
(* Shortcut handlers *)

\* updateShortcutModal: the options of #tabSelect and its value.  A value
\* that is no option leaves the select without a selection (value "").
updateShortcutModal(w) ==
  LET u == UngroupedIndex(w.tabs)
      others == Filter(w.tabs, LAMBDA t : ~IsUngrouped(t))
      options == (IF u # 0 THEN <<w.tabs[u].id>> ELSE <<>>)
                 \o [i \in 1..Len(others) |-> others[i].id]
      value == IF w.activeTabId # 0
               THEN (IF w.activeTabId \in Range(options) THEN w.activeTabId ELSE 0)
               ELSE IF u # 0 THEN w.tabs[u].id
               ELSE IF options # <<>> THEN options[1] ELSE 0
  IN IF Len(w.tabs) > 0
     THEN [w EXCEPT !.modal.hasSelect = TRUE, !.modal.options = options,
                    !.modal.value = value]
     ELSE [w EXCEPT !.modal.hasSelect = FALSE, !.modal.options = <<>>,
                    !.modal.value = 0]

\* openModal(edit, el)
openModal(w, edit, el) ==
  [updateShortcutModal([w EXCEPT !.isEditing = edit, !.currentElement = el])
     EXCEPT !.modal.open = TRUE]

\* closeModal.  The next openModal rebuilds #tabSelect before anything reads
\* it, so the hidden modal keeps nothing here.
closeModal(w) == [w EXCEPT !.modal = ClosedModal]

\* tab.shortcuts.indexOf(id) followed by splice(index, 1)
RemoveFirst(ids, id) ==
  IF IndexOf(ids, id) # 0 THEN RemoveAt(ids, IndexOf(ids, id)) ELSE ids

\* state.tabs.forEach(tab => ... splice ...): "Remove shortcut from all tabs"
RemoveFromAllTabs(ts, id) ==
  [i \in 1..Len(ts) |-> [ts[i] EXCEPT !.shortcuts = RemoveFirst(@, id)]]

\* addShortcut: the new element, inserted before the add button.
InsertShortcut(w, name, url) ==
  [w EXCEPT
     !.nextId = @ + 1,
     !.container = Append(@, [id |-> w.nextId, name |-> name,
                              href |-> Href(url), shown |-> TRUE])]

\* addShortcut: "Add shortcut to the specified tab or the active tab", with
\* targetTabId = null.
PushToActiveTab(w, shortcutId) ==
  LET t == TabIndex(w.tabs, w.activeTabId)
      u == UngroupedIndex(w.tabs)
  IN IF w.activeTabId # 0
     THEN (IF t # 0
           THEN saveTabs([w EXCEPT !.tabs[t].shortcuts = Append(@, shortcutId)])
           ELSE w)
     ELSE (IF u # 0
           THEN saveTabs([w EXCEPT !.tabs[u].shortcuts = Append(@, shortcutId)])
           ELSE w)

\* addShortcut(name, url)
addShortcut(w, name, url) ==
  updateVisibleShortcuts(saveToLocalStorage(
    PushToActiveTab(InsertShortcut(w, name, url), w.nextId)))

\* The saveBtn click handler, edit path: href and label of the element.
EditElement(w, name, url) ==
  [w EXCEPT !.container =
     [i \in 1..Len(w.container) |->
        IF w.container[i].id = w.currentElement
        THEN [w.container[i] EXCEPT !.href = Href(url), !.name = name]
        ELSE w.container[i]]]

\* The saveBtn click handler, edit path: "Update tab assignment if changed".
MoveToSelectedTab(w, oldShortcutId, selectedTabId) ==
  LET removed == RemoveFromAllTabs(w.tabs, oldShortcutId)
      t == TabIndex(w.tabs, selectedTabId)
  IN IF Len(w.tabs) > 0 /\ w.modal.hasSelect
     THEN saveTabs([w EXCEPT !.tabs =
                      IF t # 0
                      THEN [removed EXCEPT ![t].shortcuts = Append(@, oldShortcutId)]
                      ELSE removed])
     ELSE w

\* The saveBtn click handler, edit path
saveEdit(w, name, url) ==
  saveToLocalStorage(
    MoveToSelectedTab(EditElement(w, name, url), w.currentElement, w.modal.value))

\* The saveBtn click handler, add path after addShortcut: "If tabs exist,
\* update the tab assignment".
AssignToSelectedTab(w, shortcutId, selectedTabId) ==
  LET a == TabIndex(w.tabs, w.activeTabId)
      removed == IF w.activeTabId # 0 /\ a # 0
                 THEN [w.tabs EXCEPT ![a].shortcuts = RemoveFirst(@, shortcutId)]
                 ELSE w.tabs
      t == TabIndex(w.tabs, selectedTabId)
  IN IF Len(w.tabs) > 0 /\ w.modal.hasSelect
     THEN updateVisibleShortcuts(renderTabs(saveTabs(
            [w EXCEPT
               !.tabs = IF t # 0
                        THEN [removed EXCEPT ![t].shortcuts = Append(@, shortcutId)]
                        ELSE removed,
               !.activeTabId = IF t # 0 /\ selectedTabId # w.activeTabId
                               THEN selectedTabId ELSE @])))
     ELSE w

\* The saveBtn click handler, add path
saveAdd(w, name, url) ==
  AssignToSelectedTab(addShortcut(w, name, url), w.nextId, w.modal.value)

\* A faulty variant of WithScheme: the test of the scheme without the i flag.
WithSchemeCaseSensitive(url) ==
  IF \E p \in {HttpPrefix, HttpsPrefix} :
       Len(url) >= Len(p) /\ \A i \in 1..Len(p) : url[i] = p[i]
  THEN url ELSE HttpsPrefix \o url

\* url = `https://${url}` unless /^https?:\/\//i matches
WithScheme(url) == IF HasScheme(url) THEN url ELSE HttpsPrefix \o url

\* A faulty variant of saveTrimmed: only the name is required.
saveTrimmedNameOnly(w, name, url) ==
  IF name = <<>> THEN w
  ELSE IF w.isEditing /\ w.currentElement # 0
       THEN closeModal(saveEdit(w, name, WithScheme(url)))
       ELSE closeModal(saveAdd(w, name, WithScheme(url)))

\* The saveBtn click handler after the two trims.
saveTrimmed(w, name, url) ==
  IF name = <<>> \/ url = <<>> THEN w
  ELSE IF w.isEditing /\ w.currentElement # 0
       THEN closeModal(saveEdit(w, name, WithScheme(url)))
       ELSE closeModal(saveAdd(w, name, WithScheme(url)))

\* The saveBtn click handler; nameInput and urlInput are the two fields.
saveClick(w, nameInput, urlInput) == saveTrimmed(w, Trim(nameInput), Trim(urlInput))

\* The deleteBtn click handler: "Remove shortcut from all tabs"
PruneTabs(w, shortcutId) ==
  IF Len(w.tabs) > 0
  THEN saveTabs([w EXCEPT !.tabs = RemoveFromAllTabs(@, shortcutId)])
  ELSE w

\* state.currentElement.remove()
RemoveElement(w, shortcutId) ==
  [w EXCEPT !.container = Filter(@, LAMBDA el : el.id # shortcutId)]

\* A faulty variant of deleteClick: the tabs keep the id.
deleteClickKeepsMembership(w) ==
  IF w.isEditing /\ w.currentElement # 0
  THEN updateVisibleShortcuts(closeModal(saveToLocalStorage(
         RemoveElement(w, w.currentElement))))
  ELSE w

\* The deleteBtn click handler
deleteClick(w) ==
  IF w.isEditing /\ w.currentElement # 0
  THEN updateVisibleShortcuts(closeModal(saveToLocalStorage(
         RemoveElement(PruneTabs(w, w.currentElement), w.currentElement))))
  ELSE w

----------------------------------------------------------------------------
(* Drag and drop *)

ShortcutItem(id) == [kind |-> "shortcut", id |-> id]
TabItem(id) == [kind |-> "tab", id |-> id]
\* A tab button that handleDrop moved among the shortcuts.
StrayItem(id) == [kind |-> "stray", id |-> id]

\* container.insertBefore(dragged, target.nextSibling) / insertBefore(dragged,
\* target) on a list of elements; Is(x, e) tells that e is the element x.
MoveNextTo(els, dragged, target, after, Is(_, _)) ==
  LET without == Filter(els, LAMBDA e : ~Is(dragged, e))
      d == FindIndex(els, LAMBDA e : Is(dragged, e))
      t == FindIndex(without, LAMBDA e : Is(target, e))
  IN InsertAt(without, IF after THEN t ELSE t - 1, els[d])

\* handleDragStart (shortcuts)
handleDragStart(w, el) == [w EXCEPT !.draggedItem = ShortcutItem(el)]

\* handleDragEnd (shortcuts)
handleDragEnd(w) == [w EXCEPT !.draggedItem = NoItem]

\* A faulty variant of handleDrop: the dragged shortcut is always inserted
\* before the target.
handleDropBeforeTarget(w, el) ==
  LET IsEl(x, e) == e.id = x
      draggedIndex == IF w.draggedItem.kind = "shortcut"
                      THEN IndexOf([i \in 1..Len(w.container) |-> w.container[i].id],
                                   w.draggedItem.id)
                      ELSE 0
  IN IF w.draggedItem = ShortcutItem(el) \/ w.draggedItem.kind = "none" THEN w
     ELSE saveToLocalStorage(
            IF w.draggedItem.kind = "shortcut" /\ draggedIndex # 0
            THEN [w EXCEPT !.container =
                    MoveNextTo(@, w.draggedItem.id, el, FALSE, IsEl)]
            ELSE IF w.draggedItem.kind = "tab"
            THEN [w EXCEPT !.tabsContainer = Filter(@, LAMBDA x : x # w.draggedItem.id),
                           !.strayTabButtons = @ \cup {w.draggedItem.id}]
            ELSE w)

\* handleDrop (shortcuts); this = the shortcut element el.  querySelectorAll
\* ('.shortcut') lists the shortcut elements and then the add button, so a
\* dragged element that is no shortcut has index -1 and is inserted after el:
\* a dragged tab button leaves the tab bar and stays among the shortcuts,
\* where no renderTabs removes it.
handleDrop(w, el) ==
  LET IsEl(x, e) == e.id = x
      draggedIndex == IF w.draggedItem.kind = "shortcut"
                      THEN IndexOf([i \in 1..Len(w.container) |-> w.container[i].id],
                                   w.draggedItem.id)
                      ELSE 0
      droppedIndex == IndexOf([i \in 1..Len(w.container) |-> w.container[i].id], el)
  IN IF w.draggedItem = ShortcutItem(el) \/ w.draggedItem.kind = "none" THEN w
     ELSE saveToLocalStorage(
            IF w.draggedItem.kind = "shortcut" /\ draggedIndex # 0
            THEN [w EXCEPT !.container =
                    MoveNextTo(@, w.draggedItem.id, el, draggedIndex < droppedIndex, IsEl)]
            ELSE IF w.draggedItem.kind = "tab"
            THEN [w EXCEPT !.tabsContainer = Filter(@, LAMBDA x : x # w.draggedItem.id),
                           !.strayTabButtons = @ \cup {w.draggedItem.id}]
            ELSE w)

\* A faulty variant of TabDragCancelled: no dragstart is cancelled.
TabDragNeverCancelled(w, el) == FALSE

\* handleTabDragStart; this = the tab button of tab id el.  The test of
\* lines 1489-1490: TRUE when the handler cancels the drag by preventDefault.
TabDragCancelled(w, el) ==
  LET t == TabIndex(w.tabs, el) IN t # 0 /\ IsUngrouped(w.tabs[t])

handleTabDragStart(w, el) ==
  IF TabDragCancelled(w, el) THEN w ELSE [w EXCEPT !.draggedItem = TabItem(el)]

\* handleTabDragStart; this = a tab button among the shortcuts.
handleStrayDragStart(w, el) ==
  IF TabDragCancelled(w, el) THEN w ELSE [w EXCEPT !.draggedItem = StrayItem(el)]

\* handleTabDragEnd
handleTabDragEnd(w) == [w EXCEPT !.draggedItem = NoItem]

\* The reordering of state.tabs in handleTabDrop.
ReorderTabs(ts, draggedTabId, droppedId, forward) ==
  LET u == UngroupedIndex(ts)
      draggedTab == ts[TabIndex(ts, draggedTabId)]
      otherTabs == Filter(ts, LAMBDA t : ~IsUngrouped(t) /\ t.id # draggedTabId)
      droppedTabIndex == TabIndex(otherTabs, droppedId) - 1
      placed == InsertAt(otherTabs,
                         IF forward THEN droppedTabIndex + 1 ELSE droppedTabIndex,
                         draggedTab)
  IN IF u # 0 THEN <<ts[u]>> \o placed ELSE placed

\* handleTabDrop; this = the tab button of tab id el.
handleTabDrop(w, el) ==
  LET IsId(x, e) == e = x
      t == TabIndex(w.tabs, el)
      NotUngrouped(x) == LET i == TabIndex(w.tabs, x)
                         IN ~(i # 0 /\ IsUngrouped(w.tabs[i]))
      tabElements == Filter(w.tabsContainer, NotUngrouped)
      draggedIndex == IndexOf(tabElements, w.draggedItem.id)
      droppedIndex == IndexOf(tabElements, el)
      draggedTabId == w.draggedItem.id
  IN IF w.draggedItem = TabItem(el) THEN w
     ELSE IF t # 0 /\ IsUngrouped(w.tabs[t]) THEN w
     ELSE IF w.draggedItem.kind = "tab" /\ draggedIndex # 0 /\ droppedIndex # 0
     THEN LET w1 == [w EXCEPT !.tabsContainer =
                       MoveNextTo(@, draggedTabId, el, draggedIndex < droppedIndex, IsId)]
          IN IF TabIndex(w.tabs, draggedTabId) # 0 /\ t # 0
             THEN saveTabs([w1 EXCEPT !.tabs =
                    ReorderTabs(@, draggedTabId, el, draggedIndex < droppedIndex)])
             ELSE w1
     ELSE w

----------------------------------------------------------------------------
(* Actions: the user's gestures.  A modal covers the page, and a drag in
   progress takes every pointer event, so the other gestures wait. *)

Idle ==
  /\ phase = "ready"
  /\ ~modal.open /\ ~tabModal.open
  /\ dnd = "idle"
  /\ tasks = <<>>

\* What the user may type as a tab name, and in the two shortcut fields.
TabNameInputs == {<<>>, <<" ">>, <<"A">>, <<" ", "Ungrouped">>}
NameInputs == {<<" ">>, SiteName}
UrlInputs == {<<>>, <<" ">>, <<"x">>}

ShownIds == {container[i].id : i \in {j \in 1..Len(container) : container[j].shown}}

Run(w, name, a, b) ==
  /\ Commit(w)
  /\ lastOp' = Op(name, a, b, w)
  /\ UNCHANGED <<phase, tasks>>

\* A handler that read the input fields of its modal.
RunWith(w, name, a, b, input) ==
  /\ Commit(w)
  /\ lastOp' = [Op(name, a, b, w) EXCEPT !.input = input]
  /\ UNCHANGED <<phase, tasks>>

\* click on "+ New Tab"
OpenAddTab ==
  /\ Idle
  /\ Run(openAddTabModal(World, FALSE, 0), "openAddTab", 0, 0)
  /\ UNCHANGED dnd

\* click on the pencil of a tab button
OpenEditTab(t) ==
  /\ Idle
  /\ Run(openAddTabModal(World, TRUE, t), "openEditTab", t, 0)
  /\ UNCHANGED dnd

\* click on #saveTabBtn
SaveTabClick(input, maxTabs, maxIds) ==
  /\ phase = "ready" /\ tabModal.open /\ tasks = <<>>
  /\ currentTabId = 0 => (Len(tabs) < maxTabs /\ nextId < FirstFreshId + maxIds)
  /\ RunWith(saveTab(World, currentTabId # 0, currentTabId, input), "saveTab",
             currentTabId, 0, <<input>>)
  /\ UNCHANGED dnd

\* click on #cancelTabBtn
CancelTabClick ==
  /\ phase = "ready" /\ tabModal.open /\ tasks = <<>>
  /\ Run(closeTabModal(World), "cancelTab", 0, 0)
  /\ UNCHANGED dnd

\* click on #deleteTabBtn, shown or not by openAddTabModal
DeleteTabClick(confirmed) ==
  /\ phase = "ready" /\ tabModal.open /\ tabModal.deleteShown
  /\ Run(deleteTab(World, currentTabId, confirmed), "deleteTab", currentTabId,
         IF confirmed THEN 1 ELSE 0)
  /\ UNCHANGED dnd

\* click on a tab button
TabClick(t) ==
  /\ Idle
  /\ Run(setActiveTab(World, t), "setActiveTab", t, 0)
  /\ UNCHANGED dnd

\* click on the add button of the shortcuts
OpenAdd ==
  /\ Idle
  /\ Run(openModal(World, FALSE, 0), "openAdd", 0, 0)
  /\ UNCHANGED dnd

\* click on the pencil of a shortcut on display
OpenEdit(el) ==
  /\ Idle
  /\ Run(openModal(World, TRUE, el), "openEdit", el, 0)
  /\ UNCHANGED dnd

\* the user picks an option of #tabSelect
ChooseTab(v) ==
  /\ phase = "ready" /\ modal.open /\ modal.hasSelect /\ tasks = <<>>
  /\ modal.value # v
  /\ Run([World EXCEPT !.modal.value = v], "chooseTab", v, 0)
  /\ UNCHANGED dnd

\* click on #saveBtn
SaveClick(nameInput, urlInput, maxShortcuts, maxIds) ==
  /\ phase = "ready" /\ modal.open /\ tasks = <<>>
  /\ ~(isEditing /\ currentElement # 0) =>
       (Len(container) < maxShortcuts /\ nextId < FirstFreshId + maxIds)
  /\ RunWith(StillInNoTab(saveClick(World, nameInput, urlInput)), "saveShortcut",
             IF isEditing THEN currentElement ELSE 0, modal.value,
             <<nameInput, urlInput>>)
  /\ UNCHANGED dnd

\* click on #cancelBtn
CancelClick ==
  /\ phase = "ready" /\ modal.open /\ tasks = <<>>
  /\ Run(closeModal(World), "cancel", 0, 0)
  /\ UNCHANGED dnd

\* click on #deleteBtn, on display in the edit modal only
DeleteClick ==
  /\ phase = "ready" /\ modal.open /\ isEditing /\ tasks = <<>>
  /\ Run(deleteClick(World), "deleteShortcut", currentElement, 0)
  /\ UNCHANGED dnd

\* dragstart on a shortcut on display
DragStart(el) ==
  /\ Idle
  /\ Run(handleDragStart(World, el), "dragStart", el, 0)
  /\ dnd' = "dragging"

\* dragstart on a tab button
TabDragStart(el) ==
  /\ Idle
  /\ Run(handleTabDragStart(World, el), "tabDragStart", el, 0)
  /\ dnd' = IF TabDragCancelled(World, el) THEN "idle" ELSE "dragging"

\* drop on a shortcut on display
Drop(el) ==
  /\ phase = "ready" /\ dnd = "dragging"
  /\ Run(handleDrop(World, el), "drop", draggedItem.id, el)
  /\ dnd' = "dropped"

\* drop on a tab button
TabDrop(el) ==
  /\ phase = "ready" /\ dnd = "dragging"
  /\ Run(handleTabDrop(World, el), "tabDrop", draggedItem.id, el)
  /\ dnd' = "dropped"

\* dragend on the dragged element: handleDragEnd or handleTabDragEnd
DragEnd ==
  /\ phase = "ready" /\ dnd \in {"dragging", "dropped"}
  /\ Run(IF draggedItem.kind \in {"tab", "stray"} THEN handleTabDragEnd(World)
         ELSE handleDragEnd(World),
         IF draggedItem.kind \in {"tab", "stray"} THEN "tabDragEnd" ELSE "dragEnd",
         draggedItem.id, 0)
  /\ dnd' = "idle"

\* dragstart on a tab button among the shortcuts
StrayDragStart(el) ==
  /\ Idle
  /\ Run(handleStrayDragStart(World, el), "tabDragStart", el, 0)
  /\ dnd' = IF TabDragCancelled(World, el) THEN "idle" ELSE "dragging"

\* drop on a tab button among the shortcuts: handleTabDrop finds it not in
\* tabElements (droppedIndex = -1)
StrayDrop(el) ==
  /\ phase = "ready" /\ dnd = "dragging"
  /\ Run(World, "tabDropOnStray", draggedItem.id, el)
  /\ dnd' = "dropped"

\* click on a tab button among the shortcuts
StrayClick(t) ==
  /\ Idle
  /\ Run(setActiveTab(World, t), "setActiveTab", t, 0)
  /\ UNCHANGED dnd

\* click on the pencil of a tab button among the shortcuts
StrayEdit(t) ==
  /\ Idle
  /\ Run(openAddTabModal(World, TRUE, t), "openEditTab", t, 0)
  /\ UNCHANGED dnd

\* A first run: nothing is stored.
Init ==
  /\ FreshPage
  /\ phase = "start"
  /\ nextId = FirstFreshId
  /\ store = [tabs |-> <<>>, activeTab |-> 0, shortcuts |-> <<>>]

TabModalGestures(maxTabs, maxIds) ==
  \/ OpenAddTab
  \/ \E t \in Range(tabsContainer) : OpenEditTab(t)
  \/ \E input \in TabNameInputs : SaveTabClick(input, maxTabs, maxIds)
  \/ CancelTabClick
  \/ \E confirmed \in BOOLEAN : DeleteTabClick(confirmed)

ShortcutGestures ==
  \/ OpenAdd
  \/ \E el \in ShownIds : OpenEdit(el)
  \/ \E v \in Range(modal.options) : ChooseTab(v)
  \/ \E n \in NameInputs, u \in UrlInputs : SaveClick(n, u, MaxShortcuts, MaxFreshIds)
  \/ CancelClick
  \/ DeleteClick

ShortcutDrags ==
  \/ \E el \in ShownIds : DragStart(el)
  \/ \E el \in ShownIds : Drop(el)

StrayDrags ==
  \/ \E el \in strayTabButtons : StrayDragStart(el)
  \/ \E el \in strayTabButtons : StrayDrop(el)

StrayGestures ==
  \/ StrayDrags
  \/ \E t \in strayTabButtons : StrayClick(t)
  \/ \E t \in strayTabButtons : StrayEdit(t)

TabDrags ==
  \/ \E el \in Range(tabsContainer) : TabDragStart(el)
  \/ \E el \in Range(tabsContainer) : TabDrop(el)
  \/ DragEnd

\* Every gesture of the page.
Next ==
  \/ LoadTabs(MaxFreshIds)
  \/ LoadShortcuts(MaxFreshIds)
  \/ Reload
  \/ TabModalGestures(MaxTabs, MaxFreshIds)
  \/ \E t \in Range(tabsContainer) : TabClick(t)
  \/ ShortcutGestures
  \/ ShortcutDrags
  \/ StrayGestures
  \/ TabDrags

Spec == Init /\ [][Next]_vars

\* The tab bar alone: create, rename, delete, select, drag and reload.
NextTabs ==
  \/ LoadTabs(MaxBarIds)
  \/ LoadShortcuts(MaxBarIds)
  \/ Reload
  \/ TabModalGestures(MaxBarTabs, MaxBarIds)
  \/ \E t \in Range(tabsContainer) : TabClick(t)
  \/ TabDrags

SpecTabs == Init /\ [][NextTabs]_vars

\* Tab creations and tab drags alone.
NextCreateDrag ==
  \/ LoadTabs(MaxBarIds)
  \/ LoadShortcuts(MaxBarIds)
  \/ Reload
  \/ OpenAddTab
  \/ \E input \in TabNameInputs : SaveTabClick(input, MaxBarTabs, MaxBarIds)
  \/ CancelTabClick
  \/ TabDrags

SpecCreateDrag == Init /\ [][NextCreateDrag]_vars

\* Tab creations, additions of shortcuts, and every drag: of tab buttons and
\* of shortcuts, dropped on tab buttons and on shortcuts.
NextDrag ==
  \/ LoadTabs(MaxBarIds + MaxDragShortcuts)
  \/ LoadShortcuts(MaxBarIds + MaxDragShortcuts)
  \/ Reload
  \/ OpenAddTab
  \/ \E input \in TabNameInputs :
       SaveTabClick(input, MaxBarTabs, MaxBarIds + MaxDragShortcuts)
  \/ CancelTabClick
  \/ OpenAdd
  \/ SaveClick(SiteName, <<"x">>, MaxDragShortcuts, MaxBarIds + MaxDragShortcuts)
  \/ CancelClick
  \/ ShortcutDrags
  \/ StrayDrags
  \/ TabDrags

SpecDrag == Init /\ [][NextDrag]_vars

\* What the user may type as a url: with and without a scheme, in either
\* case, with and without a path, with blanks around, and nothing.
UrlCases ==
  { <<>>, <<" ">>, <<"x">>, <<" ", "x", " ">>, <<"x", "/", "a">>,
    <<"h", "t", "t", "p", ":", "/", "/", "x", "/">>,
    <<"H", "T", "T", "P", "S", ":", "/", "/", "X">> }

\* Additions and editions of shortcuts in the default tab.
NextUrl ==
  \/ LoadTabs(MaxUrlShortcuts + 1)
  \/ LoadShortcuts(MaxUrlShortcuts + 1)
  \/ Reload
  \/ OpenAdd
  \/ \E el \in ShownIds : OpenEdit(el)
  \/ \E n \in NameInputs, u \in UrlCases :
       SaveClick(n, u, MaxUrlShortcuts, MaxUrlShortcuts + 1)
  \/ CancelClick

SpecUrl == Init /\ [][NextUrl]_vars

\* The urls of stored records: as this page stores them (el.href), and as
\* scripts/main.js stored them (the trimmed input with its scheme).
StoredUrls ==
  { SiteHref,
    <<"h", "t", "t", "p", "s", ":", "/", "/", "x">>,
    <<"H", "T", "T", "P", ":", "/", "/", "X", "/", "a">> }

\* Stored lists of records with and without an id; ids are unique.
RoundTripLists ==
  {l \in SeqsUpTo([id : 0..MaxRoundTripShortcuts, name : {SiteName},
                   url : StoredUrls], MaxRoundTripShortcuts) :
     \A i, j \in 1..Len(l) : (i # j /\ l[i].id # 0) => l[i].id # l[j].id}

InitRoundTrip ==
  /\ FreshPage
  /\ phase = "start"
  /\ nextId = FirstFreshId
  /\ store \in [tabs : {<<>>}, activeTab : {0}, shortcuts : RoundTripLists]

\* saveToLocalStorage right after the load, before any gesture.
SaveAfterLoad ==
  /\ phase = "ready" /\ lastOp.op = "loadShortcuts"
  /\ Run(saveToLocalStorage(World), "saveToLocalStorage", 0, 0)
  /\ UNCHANGED dnd

NextRoundTrip ==
  \/ LoadTabs(2 * MaxRoundTripShortcuts + 1)
  \/ LoadShortcuts(2 * MaxRoundTripShortcuts + 1)
  \/ SaveAfterLoad
  \/ Reload

SpecRoundTrip == InitRoundTrip /\ [][NextRoundTrip]_vars

\* A store the page wrote: shortcuts 1..n, each in the "Ungrouped" tab or in
\* the tab "A", and one of the two tabs active.
OrderStores ==
  {[tabs |-> <<[id |-> 101, name |-> Ungrouped,
                shortcuts |-> SelectSeq([i \in 1..n |-> i], LAMBDA i : i \in S)],
               [id |-> 102, name |-> <<"A">>,
                shortcuts |-> SelectSeq([i \in 1..n |-> i], LAMBDA i : i \notin S)]>>,
    activeTab |-> a,
    shortcuts |-> [i \in 1..n |-> StoredShortcut(i)]] :
     n \in 1..MaxOrderShortcuts, S \in SUBSET (1..MaxOrderShortcuts),
     a \in {101, 102}}

InitOrder ==
  /\ FreshPage
  /\ phase = "start"
  /\ nextId = FirstFreshId
  /\ store \in OrderStores

\* Shortcut drags and tab selections on a loaded page.
NextOrder ==
  \/ LoadTabs(1)
  \/ LoadShortcuts(1)
  \/ Reload
  \/ \E t \in Range(tabsContainer) : TabClick(t)
  \/ ShortcutDrags
  \/ DragEnd

SpecOrder == InitOrder /\ [][NextOrder]_vars

----------------------------------------------------------------------------
(* saveTab with its awaits: saveTabs suspends the handler after each of its
   two writes, and the tab modal stays open until the handler resumes for
   the last time; its buttons take clicks meanwhile. *)

RunTask(w, name, a, b, rest) ==
  /\ Commit(w)
  /\ lastOp' = Op(name, a, b, w)
  /\ tasks' = rest
  /\ UNCHANGED <<phase, dnd>>

\* click on #saveTabBtn: saveTab up to the first await of saveTabs
SaveTabBegin(input, maxTabs, maxIds) ==
  /\ phase = "ready" /\ tabModal.open /\ tasks = <<>>
  /\ currentTabId = 0 => (Len(tabs) < maxTabs /\ nextId < FirstFreshId + maxIds)
  /\ IF Trim(input) = <<>>
     THEN RunTask(World, "saveTab", currentTabId, 0, <<>>)
     ELSE RunTask(setStorageValue(
                    saveTabChange(World, currentTabId # 0, currentTabId, Trim(input)),
                    "tabs",
                    saveTabChange(World, currentTabId # 0, currentTabId, Trim(input)).tabs),
                  "saveTab", currentTabId, 0, <<"saveTabs:activeTab">>)

\* saveTabs resumes: the activeTab key is written
SaveTabsResume ==
  /\ tasks = <<"saveTabs:activeTab">>
  /\ RunTask(setStorageValue(World, "activeTab", activeTabId), "saveTabs", 0, 0,
             <<"saveTab:render">>)

\* saveTab resumes: renderTabs, updateVisibleShortcuts, the modal is hidden
SaveTabEnd ==
  /\ tasks = <<"saveTab:render">>
  /\ RunTask(saveTabFinish(World), "saveTabEnd", 0, 0, <<>>)

NextAsync ==
  \/ LoadTabs(MaxBarIds)
  \/ LoadShortcuts(MaxBarIds)
  \/ Reload
  \/ OpenAddTab
  \/ \E t \in Range(tabsContainer) : OpenEditTab(t)
  \/ \E input \in TabNameInputs : SaveTabBegin(input, MaxBarTabs, MaxBarIds)
  \/ SaveTabsResume
  \/ SaveTabEnd
  \/ CancelTabClick
  \/ \E confirmed \in BOOLEAN : DeleteTabClick(confirmed)

SpecAsync == Init /\ [][NextAsync]_vars

----------------------------------------------------------------------------
(* The page closed in the middle of a handler.  deleteTab awaits saveTabs,
   which awaits the write of the tabs key and then the write of the activeTab
   key; the page may be closed at either await, and the store keeps what was
   written until then. *)

\* deleteTab from confirm() to its await: the tab is filtered out of
\* state.tabs and the active tab is set again.
deleteTabChange(w, tabId) ==
  LET rest == Filter(w.tabs, LAMBDA t : t.id # tabId)
  IN [w EXCEPT
        !.tabs = rest,
        !.deletedMembers = @ \cup MembersOf(w.tabs, tabId),
        !.activeTabId =
          IF w.activeTabId = tabId /\ Len(rest) > 0 THEN rest[1].id
          ELSE IF Len(rest) = 0 THEN 0
          ELSE @]

\* click on #deleteTabBtn: deleteTab up to the first await of saveTabs
DeleteTabBegin(confirmed) ==
  /\ phase = "ready" /\ tabModal.open /\ tabModal.deleteShown /\ tasks = <<>>
  /\ IF ~confirmed
     THEN RunTask(World, "deleteTab", currentTabId, 0, <<>>)
     ELSE RunTask(setStorageValue(deleteTabChange(World, currentTabId), "tabs",
                                  deleteTabChange(World, currentTabId).tabs),
                  "deleteTab", currentTabId, 1, <<"deleteTab:activeTab">>)

\* saveTabs resumes in deleteTab: the activeTab key is written
DeleteTabSaveTabsResume ==
  /\ tasks = <<"deleteTab:activeTab">>
  /\ RunTask(setStorageValue(World, "activeTab", activeTabId), "saveTabs", 0, 0,
             <<"deleteTab:render">>)

\* deleteTab resumes: renderTabs, updateVisibleShortcuts, the modal is hidden
DeleteTabEnd ==
  /\ tasks = <<"deleteTab:render">>
  /\ RunTask(closeTabModal(updateVisibleShortcuts(renderTabs(World))),
             "deleteTabEnd", 0, 0, <<>>)

\* The page is closed while a handler is suspended: the handler never
\* resumes, the store keeps the writes done so far.
PageClose ==
  /\ phase = "ready" /\ tasks # <<>>
  /\ tabs' = <<>>
  /\ activeTabId' = 0
  /\ draggedItem' = NoItem
  /\ isEditing' = FALSE
  /\ currentElement' = 0
  /\ currentTabId' = 0
  /\ container' = <<>>
  /\ tabsContainer' = <<>>
  /\ strayTabButtons' = {}
  /\ modal' = ClosedModal
  /\ tabModal' = ClosedTabModal
  /\ lastOp' = [op |-> "pageClose", a |-> 0, b |-> 0, input |-> <<>>, writes |-> <<>>]
  /\ phase' = "restart"
  /\ tasks' = <<>>
  /\ deletedMembers' = Pending(deletedMembers)
  /\ search' = NoSearch
  /\ UNCHANGED <<store, nextId, dnd, other>>

NextClose ==
  \/ LoadTabs(MaxBarIds)
  \/ LoadShortcuts(MaxBarIds)
  \/ Reload
  \/ PageClose
  \/ OpenAddTab
  \/ \E t \in Range(tabsContainer) : OpenEditTab(t)
  \/ \E t \in Range(tabsContainer) : TabClick(t)
  \/ \E input \in TabNameInputs : SaveTabBegin(input, MaxBarTabs, MaxBarIds)
  \/ SaveTabsResume
  \/ SaveTabEnd
  \/ CancelTabClick
  \/ \E confirmed \in BOOLEAN : DeleteTabBegin(confirmed)
  \/ DeleteTabSaveTabsResume
  \/ DeleteTabEnd

SpecClose == Init /\ [][NextClose]_vars

----------------------------------------------------------------------------
(* The add path of the saveBtn click handler with its awaits.  The handler
   is suspended at getFaviconUrl, at the two writes of saveTabs and at the
   write of saveToLocalStorage inside addShortcut, and at the two writes of
   its own saveTabs; the shortcut modal stays on display until closeModal at
   the end of the handler, and its Save button takes clicks meanwhile.  Each
   suspended handler keeps its locals: the id, the name and the url. *)

\* Handlers of the saveBtn click that may be suspended at the same time, and
\* the shortcuts added in one run.
MaxOverlap == 2
MaxOverlapShortcuts == 3

\* A store the page wrote: the "Ungrouped" tab and the tab "A", no shortcut.
OverlapStores ==
  {[tabs |-> <<[id |-> 101, name |-> Ungrouped, shortcuts |-> <<>>],
               [id |-> 102, name |-> <<"A">>, shortcuts |-> <<>>]>>,
    activeTab |-> a,
    shortcuts |-> <<>>] : a \in {101, 102}}

InitOverlap ==
  /\ FreshPage
  /\ phase = "start"
  /\ nextId = FirstFreshId
  /\ store \in OverlapStores

\* The locals of a suspended handler, and the await it is suspended at.
AddTask(pc, id, name, url) ==
  [pc |-> pc, id |-> id, name |-> name, url |-> url, got |-> <<>>]

\* The handler tasks[i] ran up to its next await, pc: it waits behind the
\* handlers that were suspended before.
Resumed(i, pc) == Append(RemoveAt(tasks, i), [tasks[i] EXCEPT !.pc = pc])

\* closeModal: the modal is hidden; #tabSelect keeps its options and value.
hideModal(w) == [w EXCEPT !.modal.open = FALSE]

\* addShortcut: the tab that takes the new id, the active tab when one is
\* set and the "Ungrouped" tab otherwise; 0 when no tab takes it.
PushIndex(w) ==
  IF w.activeTabId # 0 THEN TabIndex(w.tabs, w.activeTabId)
  ELSE UngroupedIndex(w.tabs)

\* The add path after addShortcut: "Remove from current tab", "Add to
\* selected tab", the selected tab made active.
AssignChange(w, shortcutId, selectedTabId) ==
  LET a == TabIndex(w.tabs, w.activeTabId)
      removed == IF w.activeTabId # 0 /\ a # 0
                 THEN [w.tabs EXCEPT ![a].shortcuts = RemoveFirst(@, shortcutId)]
                 ELSE w.tabs
      t == TabIndex(w.tabs, selectedTabId)
  IN [w EXCEPT
        !.tabs = IF t # 0
                 THEN [removed EXCEPT ![t].shortcuts = Append(@, shortcutId)]
                 ELSE removed,
        !.activeTabId = IF t # 0 /\ selectedTabId # w.activeTabId
                        THEN selectedTabId ELSE @]

\* click on #saveBtn in the add modal: the fields are read, the id is taken
\* from Date.now(), and addShortcut awaits getFaviconUrl
AddSaveBegin(nameInput, urlInput) ==
  /\ phase \in {"loading", "ready"}
  /\ modal.open /\ ~(isEditing /\ currentElement # 0)
  /\ Trim(nameInput) # <<>> /\ Trim(urlInput) # <<>>
  /\ Len(tasks) < MaxOverlap
  /\ nextId < FirstFreshId + MaxOverlapShortcuts
  /\ RunTask([World EXCEPT !.nextId = @ + 1], "saveShortcut", 0, modal.value,
             Append(tasks, AddTask("getFaviconUrl", nextId, Trim(nameInput),
                                   WithScheme(Trim(urlInput)))))

\* addShortcut resumes after getFaviconUrl: the element is inserted, the id
\* pushed to a tab, and saveTabs or saveToLocalStorage starts
AddInsert(i) ==
  /\ tasks[i].pc = "getFaviconUrl"
  /\ LET h == tasks[i]
         w == [World EXCEPT !.container =
                 Append(@, [id |-> h.id, name |-> h.name, href |-> Href(h.url),
                            shown |-> TRUE])]
         p == PushIndex(w)
         pushed == [w EXCEPT !.tabs[p].shortcuts = Append(@, h.id)]
     IN IF p # 0
        THEN RunTask(setStorageValue(pushed, "tabs", pushed.tabs), "addShortcut",
                     h.id, 0, Resumed(i, "addShortcut:activeTab"))
        ELSE RunTask(saveToLocalStorage(w), "addShortcut", h.id, 0,
                     Resumed(i, "addShortcut:visible"))

\* saveTabs resumes in addShortcut: the activeTab key is written
AddSaveTabsResume(i) ==
  /\ tasks[i].pc = "addShortcut:activeTab"
  /\ RunTask(setStorageValue(World, "activeTab", activeTabId), "saveTabs",
             tasks[i].id, 0, Resumed(i, "addShortcut:shortcuts"))

\* addShortcut resumes after saveTabs: saveToLocalStorage
AddSaveShortcuts(i) ==
  /\ tasks[i].pc = "addShortcut:shortcuts"
  /\ RunTask(saveToLocalStorage(World), "saveToLocalStorage", tasks[i].id, 0,
             Resumed(i, "addShortcut:visible"))

\* addShortcut resumes for the last time and returns to the handler, which
\* reads #tabSelect, moves the id to the selected tab and awaits saveTabs
AddAssign(i) ==
  /\ tasks[i].pc = "addShortcut:visible"
  /\ LET w == updateVisibleShortcuts(World)
         assigned == AssignChange(w, tasks[i].id, modal.value)
     IN IF Len(tabs) > 0 /\ modal.hasSelect
        THEN RunTask(setStorageValue(assigned, "tabs", assigned.tabs), "assign",
                     tasks[i].id, modal.value,
                     Resumed(i, "saveBtn:activeTab"))
        ELSE RunTask(hideModal(w), "saveShortcutEnd", tasks[i].id, 0,
                     RemoveAt(tasks, i))

\* saveTabs resumes in the handler: the activeTab key is written
AddAssignResume(i) ==
  /\ tasks[i].pc = "saveBtn:activeTab"
  /\ RunTask(setStorageValue(World, "activeTab", activeTabId), "saveTabs",
             tasks[i].id, 0, Resumed(i, "saveBtn:render"))

\* the handler resumes for the last time: renderTabs, updateVisibleShortcuts,
\* closeModal
AddSaveEnd(i) ==
  /\ tasks[i].pc = "saveBtn:render"
  /\ RunTask(hideModal(updateVisibleShortcuts(renderTabs(World))),
             "saveShortcutEnd", tasks[i].id, 0, RemoveAt(tasks, i))

NextOverlap ==
  \/ LoadTabs(1)
  \/ LoadShortcuts(1)
  \/ Reload
  \/ OpenAdd
  \/ \E v \in Range(modal.options) : ChooseTab(v)
  \/ \E t \in Range(tabsContainer) : TabClick(t)
  \/ AddSaveBegin(SiteName, <<"x">>)
  \/ \E i \in 1..Len(tasks) : AddInsert(i)
  \/ \E i \in 1..Len(tasks) : AddSaveTabsResume(i)
  \/ \E i \in 1..Len(tasks) : AddSaveShortcuts(i)
  \/ \E i \in 1..Len(tasks) : AddAssign(i)
  \/ \E i \in 1..Len(tasks) : AddAssignResume(i)
  \/ \E i \in 1..Len(tasks) : AddSaveEnd(i)

SpecOverlap == InitOverlap /\ [][NextOverlap]_vars

----------------------------------------------------------------------------
(* initialize with its awaits, and an Add Shortcut save meanwhile.  The
   listeners of the add button and of the Save button are registered when the
   script is evaluated, so they take clicks while initialize is suspended in
   loadTabs or in loadShortcuts.  chrome.storage serves the calls in the
   order they were made: a read returns the store of the moment of the call,
   and the handlers resume in the order of their calls (tasks is that
   queue). *)

\* The shortcuts in the store when the page is opened, and the fresh ids of
\* one run.
MaxInitShortcuts == 2
MaxInitIds == 3

\* Stores the page wrote: the shortcuts 1..MaxInitShortcuts, in the
\* "Ungrouped" tab or in no tab after the only tab was renamed and deleted.
InitializeStores ==
  {[tabs |-> <<>>, activeTab |-> 0,
    shortcuts |-> [i \in 1..MaxInitShortcuts |-> StoredShortcut(i)]],
   [tabs |-> <<[id |-> 101, name |-> Ungrouped,
                shortcuts |-> [i \in 1..MaxInitShortcuts |-> i]]>>,
    activeTab |-> 101,
    shortcuts |-> [i \in 1..MaxInitShortcuts |-> StoredShortcut(i)]]}

InitInitialize ==
  /\ FreshPage
  /\ phase = "start"
  /\ nextId = FirstFreshId
  /\ store \in InitializeStores

\* initialize suspended at pc; got is what the pending read returns.
InitTask(pc, got) ==
  [pc |-> pc, id |-> 0, name |-> <<>>, url |-> <<>>, got |-> got]

\* The handler at the head of the queue ran up to its next await.
Queue(task) == Append(Tail(tasks), task)

\* DOMContentLoaded: initialize up to the first await of loadTabs
InitializeBegin ==
  /\ phase \in {"start", "restart"}
  /\ Commit(World)
  /\ lastOp' = Op("initialize", 0, 0, World)
  /\ tasks' = <<InitTask("loadTabs:tabs", store.tabs)>>
  /\ phase' = "loading"
  /\ UNCHANGED dnd

\* loadTabs resumes with the stored tabs and reads the activeTab key
LoadTabsRead ==
  /\ tasks # <<>> /\ Head(tasks).pc = "loadTabs:tabs"
  /\ RunTask([World EXCEPT !.tabs = Head(tasks).got], "loadTabs", 0, 0,
             Queue(InitTask("loadTabs:activeTab", store.activeTab)))

\* loadTabs resumes with the stored activeTab: the "Ungrouped" tab is created
\* and saveTabs starts, or renderTabs runs and loadShortcuts reads the
\* shortcuts key
LoadTabsActiveRead ==
  /\ tasks # <<>> /\ Head(tasks).pc = "loadTabs:activeTab"
  /\ UngroupedIndex(tabs) = 0 => nextId < FirstFreshId + MaxInitIds
  /\ LET w == [World EXCEPT !.activeTabId = Head(tasks).got]
         created == [w EXCEPT
                       !.tabs = <<[id |-> w.nextId, name |-> Ungrouped,
                                   shortcuts |-> <<>>]>> \o w.tabs,
                       !.activeTabId = IF w.activeTabId = 0 THEN w.nextId ELSE @,
                       !.nextId = @ + 1]
     IN IF UngroupedIndex(w.tabs) = 0
        THEN RunTask(setStorageValue(created, "tabs", created.tabs), "loadTabs",
                     0, 0, Queue(InitTask("loadTabs:saveTabs", <<>>)))
        ELSE RunTask(renderTabs(w), "loadTabs", 0, 0,
                     Queue(InitTask("loadShortcuts:items", store.shortcuts)))

\* saveTabs resumes in loadTabs: the activeTab key is written
LoadTabsSaveTabsResume ==
  /\ tasks # <<>> /\ Head(tasks).pc = "loadTabs:saveTabs"
  /\ RunTask(setStorageValue(World, "activeTab", activeTabId), "saveTabs", 0, 0,
             Queue(InitTask("loadTabs:render", <<>>)))

\* loadTabs resumes after saveTabs: renderTabs, and loadShortcuts reads the
\* shortcuts key
LoadTabsEnd ==
  /\ tasks # <<>> /\ Head(tasks).pc = "loadTabs:render"
  /\ RunTask(renderTabs(World), "loadTabs", 0, 0,
             Queue(InitTask("loadShortcuts:items", store.shortcuts)))

\* loadShortcuts resumes with the stored items: the elements are inserted,
\* the tabs' lists rebuilt, and saveTabs starts
LoadShortcutsPlace ==
  /\ tasks # <<>> /\ Head(tasks).pc = "loadShortcuts:items"
  /\ LET cleared == [World EXCEPT !.tabs = [i \in 1..Len(tabs) |->
                                             [tabs[i] EXCEPT !.shortcuts = <<>>]]]
         placed == PlaceAll(cleared, Head(tasks).got,
                            existingTabAssignments(<<>>, tabs), UngroupedIndex(tabs))
     IN RunTask(setStorageValue(placed, "tabs", placed.tabs), "loadShortcuts", 0, 0,
                Queue(InitTask("loadShortcuts:saveTabs", <<>>)))

\* saveTabs resumes in loadShortcuts: the activeTab key is written
LoadShortcutsSaveTabsResume ==
  /\ tasks # <<>> /\ Head(tasks).pc = "loadShortcuts:saveTabs"
  /\ RunTask(setStorageValue(World, "activeTab", activeTabId), "saveTabs", 0, 0,
             Queue(InitTask("loadShortcuts:visible", <<>>)))

\* loadShortcuts resumes for the last time, and the rest of initialize
InitializeEnd ==
  /\ tasks # <<>> /\ Head(tasks).pc = "loadShortcuts:visible"
  /\ Commit(updateVisibleShortcuts(World))
  /\ lastOp' = Op("initializeEnd", 0, 0, World)
  /\ tasks' = Tail(tasks)
  /\ phase' = "ready"
  /\ UNCHANGED dnd

\* click on the add button of the shortcuts, during initialize or after it
OpenAddAnyTime ==
  /\ phase \in {"loading", "ready"} /\ ~modal.open
  /\ \A i \in 1..Len(tasks) : tasks[i].id = 0
  /\ Run(openModal(World, FALSE, 0), "openAdd", 0, 0)
  /\ UNCHANGED dnd

\* click on #saveBtn: one handler of the click at a time here
AddSaveOnce ==
  /\ \A i \in 1..Len(tasks) : tasks[i].id = 0
  /\ AddSaveBegin(SiteName, <<"y">>)

NextInitialize ==
  \/ InitializeBegin
  \/ LoadTabsRead
  \/ LoadTabsActiveRead
  \/ LoadTabsSaveTabsResume
  \/ LoadTabsEnd
  \/ LoadShortcutsPlace
  \/ LoadShortcutsSaveTabsResume
  \/ InitializeEnd
  \/ Reload
  \/ OpenAddAnyTime
  \/ AddSaveOnce
  \/ tasks # <<>> /\ AddInsert(1)
  \/ tasks # <<>> /\ AddSaveTabsResume(1)
  \/ tasks # <<>> /\ AddSaveShortcuts(1)
  \/ tasks # <<>> /\ AddAssign(1)
  \/ tasks # <<>> /\ AddAssignResume(1)
  \/ tasks # <<>> /\ AddSaveEnd(1)

SpecInitialize == InitInitialize /\ [][NextInitialize]_vars

----------------------------------------------------------------------------
(* The search box.  Time passes in ticks; the delay of the debounced handler
   is Delay ticks.  A timer that has run out fires before more time passes,
   but an input event may still come first.  The responses of the fetches in
   flight arrive in any order. *)

\* The 300 ms of handleSearchInput in ticks, the fetches of one run, and the
\* input events counted in one burst.
Delay == 2
MaxFetches == 3
MaxBurst == 3

\* What the user may leave in #search.
SearchInputs == {<<>>, <<" ">>, <<"a">>, <<"a", "b">>}

\* What the suggest service answers to query.
Suggestions(query) == <<query, query \o <<"z">>>>

\* setTimeout: the id of the new timer.
NewTimerId(timers) ==
  CHOOSE id \in 1..(Cardinality(timers) + 1) : \A t \in timers : t.id # id

\* A faulty variant of debounced: the pending timer is not cleared.
debouncedWithoutClear(s) ==
  LET id == NewTimerId(s.timers)
  IN [s EXCEPT !.timers = @ \cup {[id |-> id, left |-> Delay]},
               !.timeoutId = id]

\* The function debounce returns: clearTimeout(timeoutId), then
\* timeoutId = setTimeout(() => fn(...args), delay).
debounced(s) ==
  LET kept == {t \in s.timers : t.id # s.timeoutId}
      id == NewTimerId(kept)
  IN [s EXCEPT !.timers = kept \cup {[id |-> id, left |-> Delay]},
               !.timeoutId = id]

\* The function handleSearchInput debounces, up to its await.
searchInputHandler(s) ==
  LET query == Trim(s.value)
  IN IF query = <<>>
     THEN [s EXCEPT !.hidden = TRUE]
     ELSE [s EXCEPT !.fetches = @ \cup {[n |-> s.sent + 1, query |-> query]},
                    !.sent = @ + 1,
                    !.fetched = @ + 1]

\* A faulty variant of renderSuggestions: the response of a fetch older than
\* one already answered is dropped.
renderSuggestionsNewestOnly(s, n, suggestions) ==
  IF n < s.newest THEN s
  ELSE [s EXCEPT !.list = suggestions, !.hidden = (suggestions = <<>>)]

\* renderSuggestions(suggestions), on the response of fetch n
renderSuggestions(s, n, suggestions) ==
  [s EXCEPT !.list = suggestions, !.hidden = (suggestions = <<>>)]

PageVars == <<tabs, activeTabId, draggedItem, isEditing, currentElement,
              currentTabId, container, tabsContainer, strayTabButtons,
              deletedMembers, store, modal, tabModal, nextId, phase, dnd, tasks,
              other, lastOp>>

\* input event on #search: the field holds v now
InputEvent(v) ==
  /\ search.value # v
  /\ search.sent < MaxFetches
  /\ search' = [debounced([search EXCEPT !.value = v]) EXCEPT
                  !.events = IF search.timers = {} THEN 1
                             ELSE IF @ < MaxBurst THEN @ + 1 ELSE @,
                  !.runs = 0, !.fetched = 0, !.idle = 0]
  /\ UNCHANGED PageVars

\* one tick of time
Tick ==
  /\ search.timers # {}
  /\ \A t \in search.timers : t.left > 0
  /\ search' = [search EXCEPT
                  !.timers = {[t EXCEPT !.left = @ - 1] : t \in @},
                  !.idle = IF @ < Delay THEN @ + 1 ELSE @]
  /\ UNCHANGED PageVars

\* the timer t fires: handleSearchInput runs up to its await
TimerFires(t) ==
  /\ t.left = 0
  /\ search' = searchInputHandler([search EXCEPT !.timers = @ \ {t},
                                                 !.runs = @ + 1])
  /\ UNCHANGED PageVars

\* the response of the fetch f arrives, with suggestions or after an error
\* with none: handleSearchInput resumes with renderSuggestions
Response(f, ok) ==
  /\ LET suggestions == IF ok THEN Suggestions(f.query) ELSE <<>>
     IN search' = [renderSuggestions(search, f.n, suggestions) EXCEPT
                     !.fetches = @ \ {f},
                     !.arrived = [n |-> f.n, suggestions |-> suggestions],
                     !.newest = IF f.n > @ THEN f.n ELSE @]
  /\ UNCHANGED PageVars

NextSearch ==
  \/ \E v \in SearchInputs : InputEvent(v)
  \/ Tick
  \/ \E t \in search.timers : TimerFires(t)
  \/ \E f \in search.fetches, ok \in BOOLEAN : Response(f, ok)

SpecSearch == Init /\ [][NextSearch]_vars

----------------------------------------------------------------------------
(* The page closed in the middle of a handler that changes shortcuts.  The
   Save handler of the shortcut modal (add path and edit path) and the Delete
   handler are suspended at getFaviconUrl and at each storage write; the page
   may be closed at any of these awaits, and the next load works on what the
   store holds then. *)

\* click on #saveBtn in the edit modal: the element takes the name and the
\* url, and the handler awaits getFaviconUrl
EditSaveBegin(nameInput, urlInput) ==
  /\ phase = "ready"
  /\ modal.open /\ isEditing /\ currentElement # 0
  /\ Trim(nameInput) # <<>> /\ Trim(urlInput) # <<>>
  /\ Len(tasks) < MaxOverlap
  /\ RunTask(EditElement(World, Trim(nameInput), WithScheme(Trim(urlInput))),
             "saveShortcut", currentElement, modal.value,
             Append(tasks, AddTask("edit:getFaviconUrl", currentElement,
                                   Trim(nameInput), WithScheme(Trim(urlInput)))))

\* the edit path resumes after getFaviconUrl: the id leaves every tab and is
\* pushed to the selected tab, and saveTabs or saveToLocalStorage starts
EditAssign(i) ==
  /\ tasks[i].pc = "edit:getFaviconUrl"
  /\ LET removed == RemoveFromAllTabs(tabs, tasks[i].id)
         t == TabIndex(tabs, modal.value)
         moved == [World EXCEPT !.tabs =
                     IF t # 0
                     THEN [removed EXCEPT ![t].shortcuts = Append(@, tasks[i].id)]
                     ELSE removed]
     IN IF Len(tabs) > 0 /\ modal.hasSelect
        THEN RunTask(setStorageValue(moved, "tabs", moved.tabs), "assign",
                     tasks[i].id, modal.value, Resumed(i, "edit:activeTab"))
        ELSE RunTask(saveToLocalStorage(World), "saveToLocalStorage",
                     tasks[i].id, 0, Resumed(i, "edit:close"))

\* saveTabs resumes in the edit path: the activeTab key is written
EditSaveTabsResume(i) ==
  /\ tasks[i].pc = "edit:activeTab"
  /\ RunTask(setStorageValue(World, "activeTab", activeTabId), "saveTabs",
             tasks[i].id, 0, Resumed(i, "edit:shortcuts"))

\* the edit path resumes after saveTabs: saveToLocalStorage
EditSaveShortcuts(i) ==
  /\ tasks[i].pc = "edit:shortcuts"
  /\ RunTask(saveToLocalStorage(World), "saveToLocalStorage", tasks[i].id, 0,
             Resumed(i, "edit:close"))

\* the handler resumes for the last time: closeModal
EditSaveEnd(i) ==
  /\ tasks[i].pc = "edit:close"
  /\ RunTask(hideModal(World), "saveShortcutEnd", tasks[i].id, 0,
             RemoveAt(tasks, i))

\* click on #deleteBtn: the id leaves every tab and saveTabs starts, or with
\* no tab the element is removed and saveToLocalStorage starts
DeleteBegin ==
  /\ phase = "ready"
  /\ modal.open /\ isEditing /\ currentElement # 0
  /\ Len(tasks) < MaxOverlap
  /\ LET pruned == [World EXCEPT !.tabs = RemoveFromAllTabs(@, currentElement)]
     IN IF Len(tabs) > 0
        THEN RunTask(setStorageValue(pruned, "tabs", pruned.tabs), "deleteShortcut",
                     currentElement, 0,
                     Append(tasks, AddTask("deleteBtn:activeTab", currentElement,
                                           <<>>, <<>>)))
        ELSE RunTask(saveToLocalStorage(RemoveElement(World, currentElement)),
                     "deleteShortcut", currentElement, 0,
                     Append(tasks, AddTask("deleteBtn:close", currentElement,
                                           <<>>, <<>>)))

\* saveTabs resumes in the Delete handler: the activeTab key is written
DeleteSaveTabsResume(i) ==
  /\ tasks[i].pc = "deleteBtn:activeTab"
  /\ RunTask(setStorageValue(World, "activeTab", activeTabId), "saveTabs",
             tasks[i].id, 0, Resumed(i, "deleteBtn:remove"))

\* the Delete handler resumes after saveTabs: state.currentElement.remove()
\* and saveToLocalStorage
DeleteRemove(i) ==
  /\ tasks[i].pc = "deleteBtn:remove"
  /\ RunTask(saveToLocalStorage(RemoveElement(World, currentElement)),
             "saveToLocalStorage", tasks[i].id, 0, Resumed(i, "deleteBtn:close"))

\* the Delete handler resumes for the last time: closeModal and
\* updateVisibleShortcuts
DeleteEnd(i) ==
  /\ tasks[i].pc = "deleteBtn:close"
  /\ RunTask(updateVisibleShortcuts(hideModal(World)), "deleteShortcutEnd",
             tasks[i].id, 0, RemoveAt(tasks, i))

NextCrash ==
  \/ LoadTabs(MaxOverlapShortcuts)
  \/ LoadShortcuts(MaxOverlapShortcuts)
  \/ PageClose
  \/ OpenAdd
  \/ \E el \in ShownIds : OpenEdit(el)
  \/ \E v \in Range(modal.options) : ChooseTab(v)
  \/ \E t \in Range(tabsContainer) : TabClick(t)
  \/ AddSaveBegin(SiteName, <<"x">>)
  \/ \E i \in 1..Len(tasks) : AddInsert(i)
  \/ \E i \in 1..Len(tasks) : AddSaveTabsResume(i)
  \/ \E i \in 1..Len(tasks) : AddSaveShortcuts(i)
  \/ \E i \in 1..Len(tasks) : AddAssign(i)
  \/ \E i \in 1..Len(tasks) : AddAssignResume(i)
  \/ \E i \in 1..Len(tasks) : AddSaveEnd(i)
  \/ EditSaveBegin(<<"n">>, <<"y">>)
  \/ \E i \in 1..Len(tasks) : EditAssign(i)
  \/ \E i \in 1..Len(tasks) : EditSaveTabsResume(i)
  \/ \E i \in 1..Len(tasks) : EditSaveShortcuts(i)
  \/ \E i \in 1..Len(tasks) : EditSaveEnd(i)
  \/ DeleteBegin
  \/ \E i \in 1..Len(tasks) : DeleteSaveTabsResume(i)
  \/ \E i \in 1..Len(tasks) : DeleteRemove(i)
  \/ \E i \in 1..Len(tasks) : DeleteEnd(i)

SpecCrash == InitOverlap /\ [][NextCrash]_vars

----------------------------------------------------------------------------
(* Two instances of the page on one store.  Nothing in the page listens to
   chrome.storage.onChanged: an instance reads the store when it loads and
   writes what it holds afterwards.  The second instance runs the same
   handlers on its own state; its gestures are taken whole. *)

\* The shortcuts of one instance and the ids drawn in one run.
MaxInstanceShortcuts == 3
MaxInstanceIds == 4

\* The second instance in front of the store as it is now.
OtherWorld ==
  [other.page EXCEPT !.store = store, !.nextId = nextId, !.writes = <<>>]

\* The shortcuts that the second instance has on display.
OtherShownIds ==
  {other.page.container[i].id :
     i \in {j \in 1..Len(other.page.container) : other.page.container[j].shown}}

\* A handler of the second instance ran and left it in w.
RunOther(w, name, a, b) ==
  /\ other' = [open |-> TRUE,
               page |-> [w EXCEPT !.store = StartedPage.store, !.nextId = 0,
                                  !.writes = <<>>, !.deletedMembers = {}]]
  /\ store' = w.store
  /\ nextId' = w.nextId
  /\ lastOp' = Op(name, a, b, w)
  /\ UNCHANGED <<tabs, activeTabId, draggedItem, isEditing, currentElement,
                 currentTabId, container, tabsContainer, strayTabButtons,
                 deletedMembers, modal, tabModal, phase, dnd, tasks, search>>

\* the second instance is opened: initialize with loadTabs and loadShortcuts
OtherOpen ==
  /\ ~other.open
  /\ phase = "ready" /\ tasks = <<>>
  /\ RunOther(updateVisibleShortcuts(loadShortcuts(loadTabs(
                [StartedPage EXCEPT !.store = store, !.nextId = nextId]))),
              "otherLoad", 0, 0)

\* the second instance: the shortcut d is dragged and dropped on the shortcut t
OtherReorder(d, t) ==
  /\ other.open /\ d # t
  /\ RunOther(handleDragEnd(handleDrop(handleDragStart(OtherWorld, d), t)),
              "otherDrop", d, t)

\* the second instance: Add Shortcut, a name and a url, Save
OtherAdd(nameInput, urlInput) ==
  /\ other.open
  /\ Len(other.page.container) < MaxInstanceShortcuts
  /\ nextId < FirstFreshId + MaxInstanceIds
  /\ RunOther(saveClick(openModal(OtherWorld, FALSE, 0), nameInput, urlInput),
              "otherSave", 0, 0)

\* the second instance: the edit icon of the shortcut el, Delete
OtherDelete(el) ==
  /\ other.open
  /\ RunOther(deleteClick(openModal(OtherWorld, TRUE, el)), "otherDelete", el, 0)

NextInstances ==
  \/ LoadTabs(MaxInstanceIds)
  \/ LoadShortcuts(MaxInstanceIds)
  \/ OpenAdd
  \/ SaveClick(SiteName, <<"x">>, MaxInstanceShortcuts, MaxInstanceIds)
  \/ OtherOpen
  \/ \E d, t \in OtherShownIds : OtherReorder(d, t)
  \/ OtherAdd(SiteName, <<"x">>)
  \/ \E el \in OtherShownIds : OtherDelete(el)

SpecInstances == Init /\ [][NextInstances]_vars

----------------------------------------------------------------------------
(* Properties *)

RECURSIVE AllMembers(_)
AllMembers(ts) ==
  IF ts = <<>> THEN <<>> ELSE Head(ts).shortcuts \o AllMembers(Tail(ts))

NoRepeat(s) == \A i, j \in 1..Len(s) : s[i] = s[j] => i = j

ElementIds == {container[i].id : i \in 1..Len(container)}

NamedUngrouped(ts) == {i \in 1..Len(ts) : ts[i].name = Ungrouped}

\* The tabs of ts with another name than "Ungrouped", in order.
NonDefault(ts) == SelectSeq(ts, LAMBDA t : t.name # Ungrouped)

Without(ts, id) == SelectSeq(ts, LAMBDA t : t.id # id)

Position(ts, id) == CHOOSE i \in 1..Len(ts) : ts[i].id = id

C2_OneUngroupedFirstAfterLoadTabs ==
  lastOp.op = "loadTabs" =>
    /\ Cardinality(NamedUngrouped(tabs)) = 1
    /\ tabs[1].name = Ungrouped

\* C3: once the page is loaded, state.tabs holds exactly one tab named
\* "Ungrouped".
C3_ExactlyOneUngrouped ==
  phase = "ready" => Cardinality(NamedUngrouped(tabs)) = 1

\* C4: a confirmed deleteTab on the default tab (the first tab named
\* "Ungrouped") changes neither state.tabs, nor state.activeTabId, nor the
\* store.
C4_DeleteDefaultTabRejected ==
  [][(/\ lastOp'.op = "deleteTab" /\ lastOp'.b = 1
      /\ UngroupedIndex(tabs) # 0
      /\ tabs[UngroupedIndex(tabs)].id = lastOp'.a)
     => (tabs' = tabs /\ activeTabId' = activeTabId /\ store' = store)]_vars

\* C5: a second load of the same store leaves the stored tabs as the first
\* load left them.
C5_ReconcileIdempotent ==
  [][(phase = "tabsReloaded" /\ lastOp'.op = "loadShortcuts")
     => store'.tabs = store.tabs]_vars

\* C6: with no handler in progress every stored shortcut is in the shortcuts
\* list of exactly one tab.
C6_EveryShortcutInOneTab ==
  (phase = "ready" /\ tasks = <<>>) =>
    \A i \in 1..Len(store.shortcuts) :
      Cardinality({t \in 1..Len(tabs) :
                     store.shortcuts[i].id \in Range(tabs[t].shortcuts)}) = 1

\* The drop of the dragged tab button on another one, both of tabs with
\* another name than "Ungrouped".
ValidTabDrop ==
  /\ lastOp'.op \in {"tabDrop", "tabDropOnStray"}
  /\ dnd = "dragging" /\ draggedItem.kind \in {"tab", "stray"}
  /\ lastOp'.a = draggedItem.id
  /\ lastOp'.a # lastOp'.b
  /\ \E i, j \in 1..Len(tabs) :
       /\ tabs[i].id = lastOp'.a /\ tabs[i].name # Ungrouped
       /\ tabs[j].id = lastOp'.b /\ tabs[j].name # Ungrouped

\* The order of state.tabs after a tab drop, from the order before it.
TabDropOrder ==
       LET d == lastOp'.a
           t == lastOp'.b
           old == NonDefault(tabs)
           new == NonDefault(tabs')
           u == UngroupedIndex(tabs)
       IN /\ tabs' = (IF u # 0 THEN <<tabs[u]>> ELSE <<>>) \o new
          /\ Without(new, d) = Without(old, d)
          /\ Len(new) = Len(old)
          /\ Position(new, d) =
               IF Position(old, d) < Position(old, t)
               THEN Position(new, t) + 1 ELSE Position(new, t) - 1
          /\ store'.tabs = tabs'

\* C7: a valid tab drop puts the default tab first and, after it, the other
\* tabs in their former order but for the dragged tab, which comes right
\* after the target when it was before it and right before it otherwise;
\* the new order is stored.
C7_TabDropOrder ==
  [][ValidTabDrop => TabDropOrder]_vars

\* The same for the tab buttons of the tab bar: neither the dragged button
\* nor the target is a tab button that a drop moved among the shortcuts.
TabDropOrderInBar ==
  [][(ValidTabDrop /\ lastOp'.op = "tabDrop" /\ draggedItem.kind = "tab")
     => TabDropOrder]_vars

\* C8: with tab creations and tab drags alone, the first tab of state.tabs
\* and of the stored tabs is named "Ungrouped".
C8_UngroupedFirst ==
  phase = "ready" =>
    /\ tabs # <<>> /\ tabs[1].name = Ungrouped
    /\ store.tabs # <<>> /\ store.tabs[1].name = Ungrouped

\* C8: three tabs were created and one was dragged behind another.
C8_Witness ==
  /\ lastOp.op = "tabDrop" /\ lastOp.writes # <<>>
  /\ Len(tabs) = 4
  /\ tabs[4].id = lastOp.a

\* C9: a dragstart on the default tab leaves state.draggedItem null and
\* starts no drag, so that no drop follows it.
C9_DefaultTabNotDragged ==
  (/\ lastOp.op = "tabDragStart"
   /\ \E i \in 1..Len(tabs) : tabs[i].id = lastOp.a /\ tabs[i].name = Ungrouped)
  => /\ draggedItem = NoItem
     /\ dnd = "idle"
     /\ \A el \in Range(tabsContainer) : ~ENABLED TabDrop(el)

\* C9: a dragstart on the default tab while other tabs are there.
C9_Witness ==
  /\ lastOp.op = "tabDragStart"
  /\ Len(tabs) >= 2
  /\ \E i \in 1..Len(tabs) : tabs[i].id = lastOp.a /\ tabs[i].name = Ungrouped

\* C10: a drop on the default tab changes neither state.tabs nor the store
\* and writes nothing.
C10_DropOnDefaultRejected ==
  [][(/\ lastOp'.op = "tabDrop"
      /\ dnd = "dragging"
      /\ \E i \in 1..Len(tabs) : tabs[i].id = lastOp'.b /\ tabs[i].name = Ungrouped)
     => (tabs' = tabs /\ store' = store /\ lastOp'.writes = <<>>)]_vars

\* C10: a tab was dragged and dropped on the default tab.
C10_Witness ==
  /\ lastOp.op = "tabDrop"
  /\ draggedItem.kind = "tab"
  /\ Len(tabs) >= 3
  /\ \E i \in 1..Len(tabs) : tabs[i].id = lastOp.b /\ tabs[i].name = Ungrouped

\* state.tabs, state.activeTabId and the stored tabs and active tab stay.
TabsKept ==
  /\ tabs' = tabs /\ activeTabId' = activeTabId
  /\ store'.tabs = store.tabs /\ store'.activeTab = store.activeTab

\* A step of a tab drag gesture that is no valid drop: the dragstart, a drop
\* that is not valid (on the dragged button, on the default tab, on a
\* shortcut), the dragend.
TabGestureStep ==
  \/ lastOp'.op \in {"tabDragStart", "tabDragEnd"}
  \/ /\ lastOp'.op \in {"tabDrop", "tabDropOnStray", "drop"}
     /\ draggedItem.kind \in {"tab", "stray"}
     /\ ~ValidTabDrop

\* A tab drag gesture without a valid drop changes nothing and ends with
\* state.draggedItem = null.
TabGestureWithoutValidDrop ==
  [][/\ TabGestureStep => TabsKept
     /\ lastOp'.op = "tabDragEnd" => (draggedItem' = NoItem /\ dnd' = "idle")]_vars

\* C11: a tab drag gesture that ends without a valid drop leaves state.tabs,
\* state.activeTabId and the stored tabs as they were and ends with
\* state.draggedItem = null; a valid drop writes the new tab order to the
\* store within the drop handler.
C11_DragEndKeepsValidDropSaves ==
  [][/\ TabGestureStep => TabsKept
     /\ lastOp'.op = "tabDragEnd" => (draggedItem' = NoItem /\ dnd' = "idle")
     /\ ValidTabDrop => (/\ "tabs" \in Range(lastOp'.writes)
                         /\ tabs' # tabs
                         /\ store'.tabs = tabs')]_vars

\* The save handler has just added a shortcut: the add path ran and wrote.
ShortcutAdded ==
  /\ lastOp.op = "saveShortcut" /\ lastOp.a = 0 /\ lastOp.writes # <<>>
  /\ container # <<>>

\* The element that addShortcut inserted before the add button.
AddedId == container[Len(container)].id

TabsHolding(id) == {t \in 1..Len(tabs) : id \in Range(tabs[t].shortcuts)}

\* C12: after an Add Shortcut save the new id is in the shortcuts list of
\* exactly one tab, the tab selected in #tabSelect, which is the active tab
\* afterwards.
C12_AddedToSelectedTab ==
  ShortcutAdded =>
    /\ Cardinality(TabsHolding(AddedId)) = 1
    /\ \A t \in TabsHolding(AddedId) :
         /\ tabs[t].id = lastOp.b
         /\ tabs[t].id = activeTabId
         /\ Len(SelectSeq(tabs[t].shortcuts, LAMBDA x : x = AddedId)) = 1

\* The save handler has just saved a shortcut, added or edited.
ShortcutSaved == lastOp.op = "saveShortcut" /\ lastOp.writes # <<>>

SavedId == IF lastOp.a # 0 THEN lastOp.a ELSE AddedId

StoredUrl(id) ==
  store.shortcuts[CHOOSE i \in 1..Len(store.shortcuts) : store.shortcuts[i].id = id].url

\* The trimmed input, with "https://" in front unless it starts with
\* http:// or https:// in any case.
Prefixed(input) ==
  LET t == Trim(input)
  IN IF \E p \in {HttpPrefix, HttpsPrefix} :
          Len(t) >= Len(p) /\ [i \in 1..Len(p) |-> Lower(t[i])] = p
     THEN t ELSE HttpsPrefix \o t

BlankShortcutInput(op) ==
  /\ op.op = "saveShortcut"
  /\ Trim(op.input[1]) = <<>> \/ Trim(op.input[2]) = <<>>

\* C14: a save of a shortcut with an empty or blank name or url changes
\* neither the shortcuts, nor the tabs and their shortcuts lists, nor
\* state.activeTabId, nor the store, and writes no key.
C14_BlankShortcutRejected ==
  [][BlankShortcutInput(lastOp') =>
       /\ container' = container
       /\ tabs' = tabs
       /\ activeTabId' = activeTabId
       /\ store' = store
       /\ lastOp'.writes = <<>>]_vars

\* C14: an edit with a blank field, of a shortcut among tabs, was rejected.
C14_Witness ==
  /\ BlankShortcutInput(lastOp)
  /\ lastOp.a # 0
  /\ Trim(lastOp.input[1]) # <<>>
  /\ Len(tabs) >= 2 /\ container # <<>>
  /\ modal.open

\* saveTab ran with a name that is empty or blank.
BlankTabName(op) ==
  op.op = "saveTab" /\ op.input # <<>> /\ Trim(op.input[1]) = <<>>

\* C15: the creation or the renaming of a tab with an empty or blank name
\* changes neither state.tabs, nor state.activeTabId, nor the store.
C15_BlankTabNameRejected ==
  [][BlankTabName(lastOp') =>
       /\ tabs' = tabs
       /\ activeTabId' = activeTabId
       /\ store' = store
       /\ lastOp'.writes = <<>>]_vars

\* C15: the renaming of a tab to a blank name was rejected.
C15_Witness ==
  /\ BlankTabName(lastOp)
  /\ lastOp.a # 0
  /\ Len(tabs) >= 2
  /\ tabModal.open


\* The first tab named "Ungrouped" of ts holds id.
InUngrouped(ts, id) ==
  /\ NamedUngrouped(ts) # {}
  /\ \A i \in NamedUngrouped(ts) :
       (\A j \in NamedUngrouped(ts) : i <= j) => id \in Range(ts[i].shortcuts)

\* A confirmed deleteTab of a tab of the list that has another name than
\* "Ungrouped".
DeletesNonDefault ==
  /\ lastOp'.op = "deleteTab" /\ lastOp'.b = 1
  /\ \E i \in 1..Len(tabs) : tabs[i].id = lastOp'.a /\ tabs[i].name # Ungrouped

DeletesTab ==
  /\ lastOp'.op = "deleteTab" /\ lastOp'.b = 1
  /\ \E i \in 1..Len(tabs) : tabs[i].id = lastOp'.a

\* C17: deleteTab of the active tab with a tab remaining makes the first
\* remaining tab active, deleteTab of another tab leaves activeTabId as it
\* is, and the stored active tab is the new activeTabId.
C17_DeleteTabActive ==
  [][DeletesTab =>
       /\ tabs' = Without(tabs, lastOp'.a)
       /\ (activeTabId = lastOp'.a /\ tabs' # <<>>) => activeTabId' = tabs'[1].id
       /\ activeTabId # lastOp'.a => activeTabId' = activeTabId
       /\ store'.activeTab = activeTabId'
    ]_vars

\* What deleteTab does while a tab remains.
DeleteTabActiveWhileTabsRemain ==
  [][(DeletesTab /\ tabs' # <<>>) =>
       /\ activeTabId' = IF activeTabId = lastOp'.a THEN tabs'[1].id
                         ELSE activeTabId
       /\ store'.activeTab = activeTabId'
    ]_vars


\* The ids the spec's rule puts on display: the list of the active tab, else
\* of the first tab named "Ungrouped", else every shortcut.
ActiveView(ts, active) ==
  IF TabIndex(ts, active) # 0
  THEN Range(ts[TabIndex(ts, active)].shortcuts) \cap ElementIds
  ELSE IF UngroupedIndex(ts) # 0
       THEN Range(ts[UngroupedIndex(ts)].shortcuts) \cap ElementIds
       ELSE ElementIds

\* The handlers that end with updateVisibleShortcuts.
EndsWithUpdateVisible ==
  \/ lastOp.op \in {"loadShortcuts", "setActiveTab"}
  \/ lastOp.op = "deleteTab" /\ lastOp.b = 1

\* C18: for every tab list and activeTabId, updateVisibleShortcuts displays
\* the list of the tab with id activeTabId when there is one, else the list
\* of the "Ungrouped" tab when there is one, else all shortcuts.
C18_VisibleShortcuts ==
  EndsWithUpdateVisible => ShownIds = ActiveView(tabs, activeTabId)

\* What updateVisibleShortcuts does when activeTabId is null or names a tab.
VisibleShortcutsOfValidActive ==
  (EndsWithUpdateVisible /\ (activeTabId = 0 \/ TabIndex(tabs, activeTabId) # 0))
    => ShownIds = ActiveView(tabs, activeTabId)


\* The tabs, by position, whose list held id when loadShortcuts began.
Holders(id) == {i \in 1..Len(lastOp.input) : id \in Range(lastOp.input[i])}

\* The positions of the tabs that hold id.
TabsOf(id) == {i \in 1..Len(tabs) : id \in Range(tabs[i].shortcuts)}

EmptyStore == [tabs |-> <<>>, activeTab |-> 0, shortcuts |-> <<>>]

\* C20: loadTabs on an empty store leaves one tab, named "Ungrouped" and
\* with an empty list, makes it the active tab, and has written the tab list
\* and the active tab to the store when it returns.
C20_LoadTabsOnEmptyStore ==
  [][(lastOp'.op = "loadTabs" /\ store = EmptyStore) =>
       /\ Len(tabs') = 1
       /\ tabs'[1].name = Ungrouped /\ tabs'[1].shortcuts = <<>>
       /\ tabs'[1].id # 0
       /\ activeTabId' = tabs'[1].id
       /\ store'.tabs = tabs' /\ store'.activeTab = activeTabId'
       /\ lastOp'.writes = <<"tabs", "activeTab">>
    ]_vars

\* C20: the first loadTabs of a page whose store was empty.
C20_Witness ==
  /\ lastOp.op = "loadTabs" /\ phase = "tabsLoaded"
  /\ store.shortcuts = <<>>
  /\ Len(tabs) = 1 /\ tabs[1].id = FirstFreshId
  /\ store.tabs = tabs /\ activeTabId = FirstFreshId


\* C21: loadShortcuts and then saveToLocalStorage, with nothing in between,
\* leave the stored shortcut list as it was: same records, ids and order.
C21_LoadSaveRoundTrip ==
  [][lastOp'.op = "saveToLocalStorage" => store'.shortcuts = store.shortcuts]_vars

\* C21, amended: the list keeps its length and order, names and ids; a
\* record without an id gets a new one and a url becomes its serialisation.
C21_LoadSaveNormalises ==
  [][lastOp'.op = "saveToLocalStorage" =>
       /\ Len(store'.shortcuts) = Len(store.shortcuts)
       /\ \A i \in 1..Len(store.shortcuts) :
            /\ store'.shortcuts[i].name = store.shortcuts[i].name
            /\ store'.shortcuts[i].url = Href(store.shortcuts[i].url)
            /\ store.shortcuts[i].id # 0 =>
                 store'.shortcuts[i].id = store.shortcuts[i].id
            /\ store.shortcuts[i].id = 0 =>
                 /\ store'.shortcuts[i].id # 0
                 /\ \A j \in 1..Len(store.shortcuts) :
                      store'.shortcuts[i].id # store.shortcuts[j].id
       /\ (\A i \in 1..Len(store.shortcuts) :
             store.shortcuts[i].id # 0
             /\ store.shortcuts[i].url = Href(store.shortcuts[i].url))
          => store'.shortcuts = store.shortcuts
    ]_vars

\* C21: a list of a record with an id and one that got its id at the load,
\* saved back.
C21_Witness ==
  /\ lastOp.op = "saveToLocalStorage"
  /\ \E i, j \in 1..Len(store.shortcuts) :
       /\ store.shortcuts[i].id >= FirstFreshId
       /\ store.shortcuts[j].id \in 1..MaxRoundTripShortcuts


\* The ids of the shortcut elements, in document order.
ContainerIds(c) == [i \in 1..Len(c) |-> c[i].id]

\* What saveToLocalStorage writes for the elements c.
RecordsOf(c) ==
  [i \in 1..Len(c) |-> [id |-> c[i].id, name |-> c[i].name, url |-> c[i].href]]

\* The drop of a dragged shortcut on the shortcut lastOp'.b.
ShortcutDrop ==
  /\ lastOp'.op = "drop"
  /\ draggedItem.kind = "shortcut"
  /\ draggedItem.id \in ElementIds

\* C22: a drop on another shortcut puts the dragged shortcut right after the
\* target when it was before it in the full list and right before it
\* otherwise, and the full list is stored in the new order; a drop on itself
\* changes neither the order nor the store.
C22_ShortcutDropOrder ==
  [][ShortcutDrop =>
       LET d == draggedItem.id
           t == lastOp'.b
           old == ContainerIds(container)
           new == ContainerIds(container')
       IN IF d = t
          THEN container' = container /\ store' = store
          ELSE /\ Len(new) = Len(old)
               /\ SelectSeq(new, LAMBDA x : x # d) = SelectSeq(old, LAMBDA x : x # d)
               /\ IndexOf(new, d) # 0
               /\ IndexOf(new, d) = IF IndexOf(old, d) < IndexOf(old, t)
                                    THEN IndexOf(new, t) + 1
                                    ELSE IndexOf(new, t) - 1
               /\ Range(container') = Range(container)
               /\ store'.shortcuts = RecordsOf(container')
               /\ store'.tabs = store.tabs /\ store'.activeTab = store.activeTab
    ]_vars

\* C22: a drop that moved a shortcut over a hidden one, and a drop on itself.
C22_Witness ==
  /\ lastOp.op = "drop" /\ lastOp.a # lastOp.b /\ lastOp.writes = <<"shortcuts">>
  /\ draggedItem = ShortcutItem(lastOp.a)
  /\ ContainerIds(container) \in {<<2, 3, 1>>, <<3, 1, 2>>}
  /\ \E i \in 1..Len(container) : ~container[i].shown
  /\ store.shortcuts = RecordsOf(container)

C22_WitnessSelf ==
  /\ lastOp.op = "drop" /\ lastOp.a = lastOp.b /\ lastOp.writes = <<>>
  /\ draggedItem = ShortcutItem(lastOp.a)


\* The save handler ran its edit path on the shortcut lastOp'.a.
EditSaved ==
  /\ lastOp'.op = "saveShortcut" /\ lastOp'.a # 0 /\ lastOp'.writes # <<>>
  /\ lastOp'.a \in ElementIds

\* The element of the shortcut lastOp'.a is where it was, with its id; every
\* other element is as it was; the store holds the elements.
EditInPlace ==
  /\ ContainerIds(container') = ContainerIds(container)
  /\ \A i \in 1..Len(container) :
       container[i].id # lastOp'.a =>
         /\ container'[i].name = container[i].name
         /\ container'[i].href = container[i].href
  /\ store'.shortcuts = RecordsOf(container')

\* The tab chosen in #tabSelect, and no other tab, holds the shortcut, once.
InChosenTabOnly ==
  /\ \E t \in 1..Len(tabs') : tabs'[t].id = lastOp'.b
  /\ \A t \in 1..Len(tabs') :
       Len(SelectSeq(tabs'[t].shortcuts, LAMBDA x : x = lastOp'.a))
         = IF tabs'[t].id = lastOp'.b THEN 1 ELSE 0

\* C23: an Edit save keeps the shortcut's id and place in the list, changes
\* its name and url only, and leaves the id in the tab chosen in the modal
\* and in no other tab.
C23_EditKeepsIdAndPlace ==
  [][EditSaved => (EditInPlace /\ InChosenTabOnly)]_vars

\* What the edit path does for the list, whatever the tabs are.
EditKeepsPlace == [][EditSaved => EditInPlace]_vars

\* What the edit path does when #tabSelect has a tab chosen.
EditMovesToChosenTab ==
  [][(EditSaved /\ lastOp'.b # 0) => InChosenTabOnly]_vars


\* The delete handler ran on the shortcut lastOp'.a.
ShortcutDeleted ==
  /\ lastOp'.op = "deleteShortcut" /\ lastOp'.a # 0 /\ isEditing
  /\ lastOp'.a \in ElementIds

\* The list ids without id.
Except(ids, id) == SelectSeq(ids, LAMBDA x : x # id)

\* C24: after the Delete Shortcut handler the deleted id is in neither the
\* stored shortcut list nor the list of any tab, in the page and in the
\* store, and every other shortcut, their order and their tabs are as before.
C24_DeleteShortcutFrame ==
  [][ShortcutDeleted =>
       LET id == lastOp'.a
       IN /\ \A i \in 1..Len(store'.shortcuts) : store'.shortcuts[i].id # id
          /\ id \notin Range(AllMembers(tabs'))
          /\ id \notin Range(AllMembers(store'.tabs))
          /\ RecordsOf(container') = SelectSeq(RecordsOf(container), LAMBDA r : r.id # id)
          /\ store'.shortcuts = RecordsOf(container')
          /\ Len(tabs') = Len(tabs)
          /\ \A t \in 1..Len(tabs) :
               tabs'[t] = [tabs[t] EXCEPT !.shortcuts = Except(@, id)]
          /\ activeTabId' = activeTabId
    ]_vars

\* C24: a deletion that left another shortcut and a tab with a member.
C24_Witness ==
  /\ lastOp.op = "deleteShortcut" /\ lastOp.a # 0
  /\ lastOp.writes = <<"tabs", "activeTab", "shortcuts">>
  /\ lastOp.a \notin ElementIds
  /\ store.shortcuts # <<>> /\ store.shortcuts = RecordsOf(container)
  /\ AllMembers(tabs) # <<>>

\* In a store this page wrote the other records are the stored ones.
DeleteShortcutKeepsStored ==
  [][ShortcutDeleted =>
       store'.shortcuts = SelectSeq(store.shortcuts, LAMBDA r : r.id # lastOp'.a)]_vars

\* The positions of the writes of key among the writes of the last handler.
WritesOf(key) == {i \in 1..Len(lastOp.writes) : lastOp.writes[i] = key}

\* The add, edit or delete handler of shortcuts wrote both collections.
WroteBothCollections ==
  /\ lastOp.op \in {"saveShortcut", "deleteShortcut"}
  /\ WritesOf("tabs") # {} /\ WritesOf("shortcuts") # {}

\* C25: in every add, edit or delete of a shortcut that writes both
\* collections a write of the tabs key comes before the write of the
\* shortcuts key and none comes after it.
C25_TabsWrittenBeforeShortcuts ==
  WroteBothCollections =>
    /\ \E i \in WritesOf("tabs") : \A j \in WritesOf("shortcuts") : i < j
    /\ \A i \in WritesOf("tabs") : \A j \in WritesOf("shortcuts") : i < j

\* What holds of the three handlers: the first write is of the tabs key, and
\* the edit and the delete path write no tabs after the shortcuts.
FirstWriteIsTabs ==
  WroteBothCollections =>
    /\ \E i \in WritesOf("tabs") : \A j \in WritesOf("shortcuts") : i < j
    /\ (lastOp.op = "deleteShortcut" \/ lastOp.a # 0) =>
         \A i \in WritesOf("tabs") : \A j \in WritesOf("shortcuts") : i < j

StoredTabIds == {store.tabs[i].id : i \in 1..Len(store.tabs)}

PageTabIds == {tabs[i].id : i \in 1..Len(tabs)}

\* C26: whenever the page is closed, also between the two writes of saveTabs,
\* the stored activeTab is absent or the id of a stored tab, and after the
\* next loadTabs state.activeTabId is null or the id of a tab of state.tabs.
C26_StoredActiveTabExists ==
  /\ phase \in {"start", "restart"} =>
       (store.activeTab = 0 \/ store.activeTab \in StoredTabIds)
  /\ lastOp.op = "loadTabs" =>
       (activeTabId = 0 \/ activeTabId \in PageTabIds)

\* C27: once every overlapping add handler of the saveBtn click has
\* completed, every shortcut id is in at most one tab, on the page and in the
\* store.
C27_OverlappingSavesKeepOneTab ==
  (phase = "ready" /\ tasks = <<>>) =>
    /\ NoRepeat(AllMembers(tabs))
    /\ NoRepeat(AllMembers(store.tabs))

StoredShortcutIds == [i \in 1..Len(store.shortcuts) |-> store.shortcuts[i].id]

\* C28: once initialize and an Add Shortcut save that ran meanwhile have both
\* completed, the stored shortcut list holds every shortcut that was stored
\* when the page was opened and the added one, each exactly once.
C28_AddDuringInitializeKeepsShortcuts ==
  (phase = "ready" /\ tasks = <<>>) =>
    /\ NoRepeat(StoredShortcutIds)
    /\ \A id \in 1..MaxInitShortcuts : id \in Range(StoredShortcutIds)
    /\ \A i \in 1..Len(container) : container[i].id \in Range(StoredShortcutIds)

\* At most one timer of debounce is pending.
OneTimer == Cardinality(search.timers) <= 1

\* An input event leaves its own timer pending alone, with the full delay.
InputRestartsTimer ==
  search'.value # search.value =>
    search'.timers = {[id |-> search'.timeoutId, left |-> Delay]}

\* The handler runs only when the full delay has passed since the last event.
RunsAfterDelay == search'.runs > search.runs => search.idle = Delay

\* C29: the debounced search handler is trailing-edge: at most one timer is
\* pending, every input event cancels it and starts a new one, and a burst
\* of input events triggers exactly one fetch, after the full delay since
\* its last event.
C29_TrailingEdgeOneFetch ==
  /\ [](OneTimer
        /\ (search.timers # {} => search.runs = 0 /\ search.fetched = 0)
        /\ (search.events > 0 /\ search.timers = {} =>
              search.runs = 1 /\ search.fetched = 1))
  /\ [][InputRestartsTimer /\ RunsAfterDelay]_vars

\* C29, amended: a burst triggers exactly one run of the handler, after the
\* full delay since its last event, and the run fetches once when the field
\* holds more than blanks and not at all when the field is blank.
C29_TrailingEdgeOneRun ==
  /\ [](OneTimer
        /\ (search.timers # {} => search.runs = 0 /\ search.fetched = 0)
        /\ (search.events > 0 /\ search.timers = {} =>
              /\ search.runs = 1
              /\ search.fetched = IF Trim(search.value) = <<>> THEN 0 ELSE 1))
  /\ [][InputRestartsTimer /\ RunsAfterDelay]_vars

\* A burst of several events has ended and its one fetch was made.
C29_Witness ==
  /\ search.events > 1 /\ search.timers = {}
  /\ search.runs = 1 /\ search.fetched = 1

\* A burst has ended on a blank field: one run, no fetch.
C29_WitnessBlank ==
  /\ search.events > 1 /\ search.timers = {}
  /\ search.runs = 1 /\ search.fetched = 0

\* C30: the responses are applied as they arrive: the list on display is the
\* result of the response that arrived last, also when that response answers
\* an older query than one answered before.
C30_LastArrivalDisplayed ==
  search.arrived.n # 0 =>
    /\ search.list = search.arrived.suggestions
    /\ ~search.hidden => search.arrived.suggestions # <<>>

\* The response to an older query arrived after the response to a newer one,
\* and its suggestions are on display; they are not those of the field.
C30_Witness ==
  /\ search.arrived.n # 0 /\ search.arrived.n < search.newest
  /\ search.list # <<>> /\ ~search.hidden
  /\ search.list = search.arrived.suggestions
  /\ search.list # Suggestions(Trim(search.value))

\* The ids of the elements that the list of the active tab holds.
ActiveMembers ==
  Range(tabs[TabIndex(tabs, activeTabId)].shortcuts) \cap ElementIds

\* C31: after every completed handler the shortcuts on display are those of
\* the list of the active tab.
C31_DisplayedAreActiveMembers ==
  (phase = "ready" /\ TabIndex(tabs, activeTabId) # 0) => ShownIds = ActiveMembers

\* C32: a valid tab drop only permutes state.tabs: the tab records after the
\* drop are those before it, none lost and none twice.
C32_TabDropPermutes ==
  [][ValidTabDrop => (Range(tabs') = Range(tabs) /\ Len(tabs') = Len(tabs))]_vars

\* The same while exactly one tab is named "Ungrouped".
TabDropPermutesWithOneUngrouped ==
  [][(ValidTabDrop /\ Cardinality(NamedUngrouped(tabs)) <= 1)
     => (Range(tabs') = Range(tabs) /\ Len(tabs') = Len(tabs))]_vars

\* C33: once the page is loaded, state.activeTabId is null or the id of a tab
\* of state.tabs, and it is not null while state.tabs holds a tab.
C33_ActiveTabIsATab ==
  phase = "ready" =>
    /\ activeTabId = 0 \/ activeTabId \in PageTabIds
    /\ tabs # <<>> => activeTabId # 0

\* How many times x is in the sequence s.
Occurrences(s, x) == Cardinality({i \in 1..Len(s) : s[i] = x})

\* s and t hold the same values, each as many times.
IsPermutation(s, t) ==
  /\ Len(s) = Len(t)
  /\ \A x \in Range(s) \cup Range(t) : Occurrences(s, x) = Occurrences(t, x)

\* C34: a shortcut drop changes only the order of the flat shortcut list: the
\* stored list after the drop is a permutation of the stored list before it,
\* and the lists of the tabs, the order of the tabs and activeTabId, in the
\* page and in the store, are what they were.
C34_ShortcutDropOnlyReorders ==
  [][ShortcutDrop =>
       /\ IsPermutation(store'.shortcuts, store.shortcuts)
       /\ tabs' = tabs /\ activeTabId' = activeTabId
       /\ store'.tabs = store.tabs /\ store'.activeTab = store.activeTab
    ]_vars

\* C34: a drop changed the stored order while the active tab shows only some
\* of the shortcuts, and another tab holds one too.
C34_Witness ==
  /\ lastOp.op = "drop" /\ lastOp.a # lastOp.b /\ lastOp.writes = <<"shortcuts">>
  /\ draggedItem = ShortcutItem(lastOp.a)
  /\ Len(store.shortcuts) = 3
  /\ StoredShortcutIds # <<1, 2, 3>>
  /\ \E i, j \in 1..Len(tabs) :
       i # j /\ tabs[i].shortcuts # <<>> /\ tabs[j].shortcuts # <<>>

\* The elements loadShortcuts made: one for each stored record, in the stored
\* order, with the id of the record when it has one.
ElementsInStoredOrder ==
  /\ Len(container) = Len(store.shortcuts)
  /\ \A i \in 1..Len(container) :
       store.shortcuts[i].id # 0 => container[i].id = store.shortcuts[i].id

\* C35: after reconciliation the ids of every tab's list are in the order
\* their shortcuts have in the stored flat list, whatever order the list had
\* before.
C35_TabListsInStoredOrder ==
  lastOp.op = "loadShortcuts" =>
    /\ ElementsInStoredOrder
    /\ \A i \in 1..Len(tabs) :
         tabs[i].shortcuts =
           SelectSeq(ContainerIds(container),
                     LAMBDA id : id \in Range(tabs[i].shortcuts))

\* C35: a tab listed 2 before 1, the store holds 1 before 2, and after
\* reconciliation the tab lists 1 before 2.
C35_Witness ==
  /\ lastOp.op = "loadShortcuts"
  /\ \E i \in 1..Len(tabs) :
       /\ i <= Len(lastOp.input)
       /\ lastOp.input[i] = <<2, 1>>
       /\ tabs[i].shortcuts = <<1, 2>>

\* After a drop and a reload, a tab lists its shortcuts in the dropped order.
C35_WitnessDropOrder ==
  /\ lastOp.op = "loadShortcuts"
  /\ \E i \in 1..Len(tabs) :
       \E k \in 1..(Len(tabs[i].shortcuts) - 1) :
         tabs[i].shortcuts[k] > tabs[i].shortcuts[k + 1]

\* Every stored shortcut is once in one list of ts, and the lists of ts hold
\* nothing but stored shortcuts.
StoredShortcutsPartitioned(ts) ==
  /\ \A i \in 1..Len(store.shortcuts) :
       Occurrences(AllMembers(ts), container[i].id) = 1
  /\ Range(AllMembers(ts)) \subseteq Range(ContainerIds(container))

\* A step of the load.
LoadStep == lastOp'.op \in {"loadTabs", "loadShortcuts"}

\* C36: whatever await a handler was closed at, the next load ends with every
\* stored shortcut in exactly one tab and no tab holding another id, in
\* state.tabs and in the stored tabs, and the load leaves the stored shortcut
\* list as it found it.
C36_LoadAfterCloseReconciles ==
  /\ [](lastOp.op = "loadShortcuts" =>
          /\ ElementsInStoredOrder
          /\ StoredShortcutsPartitioned(tabs)
          /\ store.tabs = tabs)
  /\ [][LoadStep => store'.shortcuts = store.shortcuts]_vars

\* C36: the page was closed after the write of the tabs key and before the
\* write of the shortcuts key of an addition: the stored list of a tab held
\* an id of no stored shortcut, and the load has ended.
C36_Witness ==
  /\ lastOp.op = "loadShortcuts"
  /\ store.shortcuts # <<>>
  /\ \E i \in 1..Len(lastOp.input) :
       ~(Range(lastOp.input[i]) \subseteq Range(StoredShortcutIds))

\* The same for a deletion: a stored shortcut was in no stored list.
C36_WitnessDeletion ==
  /\ lastOp.op = "loadShortcuts"
  /\ \E i \in 1..Len(store.shortcuts) :
       \A j \in 1..Len(lastOp.input) :
         store.shortcuts[i].id \notin Range(lastOp.input[j])

\* C37: once the page is loaded, the tab bar holds one button for every tab
\* of state.tabs.
C37_EveryTabDisplayedOnce ==
  phase = "ready" =>
    \A i \in 1..Len(tabs) : Occurrences(tabsContainer, tabs[i].id) = 1

\* The same for the tabs that renderTabs treats: the first tab named
\* "Ungrouped" and the tabs of another name.
RenderedTabsDisplayedOnce ==
  phase = "ready" =>
    \A i \in 1..Len(tabs) :
      (i = UngroupedIndex(tabs) \/ ~IsUngrouped(tabs[i]))
        => Occurrences(tabsContainer, tabs[i].id) = 1

\* The shortcut elements of the second instance.
OtherElementIds ==
  {other.page.container[i].id : i \in 1..Len(other.page.container)}

\* The second instance ran a handler that changes shortcuts.
OtherMutates == lastOp'.op \in {"otherDrop", "otherSave", "otherDelete"}

\* C38: a stored shortcut that the second instance does not hold, one that
\* the first instance added after the second had loaded, is still stored
\* after a reorder, an addition or a deletion in the second instance.
C38_OtherInstanceKeepsAdded ==
  [][OtherMutates =>
       \A id \in Range(StoredShortcutIds) \ OtherElementIds :
         id \in Range([i \in 1..Len(store'.shortcuts) |-> store'.shortcuts[i].id])
    ]_vars

\* What an instance stores is the list of its own elements.
OtherStoresOwnElements ==
  [][OtherMutates /\ lastOp'.writes # <<>> =>
       store'.shortcuts = RecordsOf(other'.page.container)]_vars

====
